---- MODULE Spec2Model ----
(***************************************************************************)
(* The HTTP/1 connection dispatcher of xitca-http                          *)
(* (src/xitca-http/src/h1/proto/dispatcher.rs) with its response-head and  *)
(* transfer encoder (src/xitca-http/src/h1/proto/encode.rs), as one state  *)
(* machine per connection: the peer, the socket, the two buffers, the      *)
(* request-body channel, the service future and the dispatcher's position. *)
(*                                                                         *)
(* Bytes are modelled as tokens.  On the read side a token is a run of     *)
(* bytes the peer sent: what the head parser makes of it is drawn when it  *)
(* is parsed, and the body decoder takes it as one body byte.  On the      *)
(* write side one response head, one unframed body byte,                   *)
(* one framed chunk (length line, n bytes, CRLF), the chunked terminator   *)
(* and the `100 Continue` line are one token each.                         *)
(*                                                                         *)
(* Spec is the dispatcher.  SpecEncode applies Context::encode_head to     *)
(* drawn responses and contexts; SpecTransfer drives a TransferEncoding    *)
(* from each of its states; SpecBody polls a ResponseBody::Bytes of        *)
(* src/actix-http-alt/src/body.rs; SpecWrite calls Dispatcher::try_write   *)
(* of src/actix-http-alt/src/h1/proto/dispatcher.rs; SpecEcho runs         *)
(* response_handler on a response body that echoes the request body;       *)
(* SpecDriver is the BufferedIo task of src/postgres/src/io/buffered.rs    *)
(* with its request channel, its server and the holder of its Handle.      *)
(***************************************************************************)
EXTENDS Integers, Sequences, FiniteSets, TLC

\* ---------------------------------------------------------------- bounds
MaxSent == 3
MaxBody == 2
MaxChunk == 2
READ_BUF_LIMIT == 1
WRITE_BUF_LIMIT == 4
SockBuf == 3

\* Longest Bytes body and largest chunk_size of a ResponseBody::Bytes.
MaxBytes == 3

MaxChunkSize == 4

VARIABLES
    pc,          \* position of Dispatcher::run
    result,      \* what run returned: "none" while running
    ctx,         \* Context: ctype, force_close, expect, connect
    req,         \* the request being handled (its head token)
    read_buf,    \* Io::read_buf
    write_buf,   \* Io::write_buf
    sock,        \* the tokens written to the socket, those of the previous
                 \* and of the current request
    net,         \* tokens the peer has sent and the dispatcher has not read
    peer,        \* the peer: tokens sent, and how it ended the connection
    body_handle, \* Option<RequestBodyHandle>: alive, decoder remaining
    chan,        \* the request-body channel
    fut,         \* the service future: "none", "running", "done"
    res_body,    \* the response body being streamed
    encoder,     \* the TransferEncoding of the response being streamed
    log          \* events of the run, in order (history), those of the
                 \* previous and of the current request

vars == <<pc, result, ctx, req, read_buf, write_buf, sock, net, peer,
          body_handle, chan, fut, res_body, encoder, log>>

Min(a, b) == IF a <= b THEN a ELSE b

\* ---------------------------------------------------------------- tokens
Hdr(n, num, toks) == [n |-> n, num |-> num, toks |-> toks]

Tok(t, rid, n) == [t |-> t, rid |-> rid, n |-> n, lines |-> <<>>]

HeadTok(rid, lines) == [t |-> "head", rid |-> rid, n |-> 0, lines |-> lines]

RECURSIVE Rep(_, _)
Rep(x, n) == IF n <= 0 THEN <<>> ELSE <<x>> \o Rep(x, n - 1)

Ev(e, id, ct) == [e |-> e, id |-> id, ct |-> ct]

\* ------------------------------------------------------- TransferEncoding
TE_eof == [kind |-> "Eof", rem |-> 0]

TE_chunked == [kind |-> "EncodeChunked", rem |-> 0]

TE_plain_chunked == [kind |-> "PlainChunked", rem |-> 0]

TE_length(len) == [kind |-> "Length", rem |-> len]

chunked_from(ctype) == IF ctype = "Upgrade" THEN TE_plain_chunked ELSE TE_chunked

\* WriteBuf::write_buf: the bytes as they are.
write_buf_bytes(rid, n) == Rep(Tok("data", rid, 0), n)

\* WriteBuf::write_chunk: chunk length line, the n bytes, CRLF.
write_chunk(rid, n) == <<Tok("chunk", rid, n)>>

encode_length_unchecked(enc, n, rid) ==
    IF enc.kind = "Length"
    THEN [enc |-> TE_length(enc.rem - n), out |-> write_buf_bytes(rid, n)]
    ELSE [enc |-> enc, out |-> <<>>]

\* TransferEncoding::encode of n bytes: the encoder afterwards and the
\* tokens appended to the write buffer.
encode(enc, n, rid) ==
    IF n = 0 THEN [enc |-> enc, out |-> <<>>]
    ELSE CASE enc.kind \in {"Eof", "PlainChunked"} ->
                [enc |-> enc, out |-> write_buf_bytes(rid, n)]
           [] enc.kind = "EncodeChunked" ->
                [enc |-> enc, out |-> write_chunk(rid, n)]
           [] enc.kind = "Length" ->
                IF enc.rem > 0
                THEN LET len == Min(enc.rem, n)
                     IN [enc |-> TE_length(enc.rem - len),
                         out |-> write_buf_bytes(rid, len)]
                ELSE [enc |-> enc, out |-> <<>>]

\* TransferEncoding::encode_eof: the tokens appended, or the panic of the
\* unreachable!() arm.
encode_eof(enc, rid) ==
    CASE enc.kind \in {"Eof", "PlainChunked"} -> [panic |-> FALSE, out |-> <<>>]
      [] enc.kind = "Length" /\ enc.rem = 0 -> [panic |-> FALSE, out |-> <<>>]
      [] enc.kind = "EncodeChunked" ->
            [panic |-> FALSE, out |-> <<Tok("term", rid, 0)>>]
      [] enc.kind = "Length" /\ enc.rem > 0 -> [panic |-> TRUE, out |-> <<>>]

\* ------------------------------------------------------------ encode_head
StatusLine(version, status) ==
    Hdr("status-line", status, <<IF version = "HTTP/1.0" THEN "HTTP/1.0" ELSE "HTTP/1.1">>)

is_informational_never(s) == FALSE

\* StatusCode::is_informational
is_informational(s) == s >= 100 /\ s < 200

is_success(s) == s >= 200 /\ s < 300

\* HeaderValue::to_str fails on a value that is not visible ASCII.
to_str_ok(h) == \A i \in DOMAIN h.toks : h.toks[i] # "NONASCII"

\* The Connection header of a response: every comma separated token in turn.
RECURSIVE connection_tokens(_, _)
connection_tokens(toks, ctype) ==
    IF toks = <<>> THEN ctype
    ELSE connection_tokens(Tail(toks),
            CASE Head(toks) = "close" -> "Close"
              [] Head(toks) = "keep-alive" -> "KeepAlive"
              [] Head(toks) = "upgrade" -> "Upgrade"
              [] OTHER -> ctype)

Push(acc, h) == [acc EXCEPT !.buf = Append(@, h)]

connection_arm_ignores_force_close(acc, h, force_close) ==
    IF to_str_ok(h)
    THEN Push([acc EXCEPT !.ctype = connection_tokens(h.toks, acc.ctype)], h)
    ELSE [acc EXCEPT !.err = "HeaderValue"]

\* The two CONNECTION arms of the header loop: with force-close set the
\* header is passed over (`continue`), otherwise its tokens set the
\* connection type and the header is written.
connection_arm(acc, h, force_close) ==
    IF force_close THEN acc
    ELSE IF to_str_ok(h)
    THEN Push([acc EXCEPT !.ctype = connection_tokens(h.toks, acc.ctype)], h)
    ELSE [acc EXCEPT !.err = "HeaderValue"]

encode_size_always_eof(b, size) == [b EXCEPT !.encoding = TE_eof]

\* `if !skip_len { match size { .. } }`: the framing header and the encoder
\* taken from the size of the body.
encode_size(b, size) ==
    IF b.skip_len THEN b
    ELSE CASE size.kind = "None" -> [b EXCEPT !.encoding = TE_eof]
           [] size.kind = "Stream" ->
                [Push(b, Hdr("transfer-encoding", 0, <<"chunked">>))
                   EXCEPT !.encoding = chunked_from(b.ctype)]
           [] size.kind = "Sized" ->
                [Push(b, Hdr("content-length", size.n, <<>>))
                   EXCEPT !.encoding = TE_length(size.n)]

encode_headers_skips_all(hs, force_close, acc) == acc

\* `parts.headers.drain()`: the entries of the header map, the values of
\* one name together; the name comes with the first value of a name only,
\* the further values of that name come with no name.
RECURSIVE drain(_)
drain(hs) ==
    IF hs = <<>> THEN <<>>
    ELSE LET h == Head(hs)
             same == SelectSeq(Tail(hs), LAMBDA x : x.n = h.n)
             others == SelectSeq(Tail(hs), LAMBDA x : x.n # h.n)
         IN <<h>> \o [i \in DOMAIN same |-> [same[i] EXCEPT !.n = "None"]]
                \o drain(others)

\* The `for (name, value) in parts.headers.drain()` loop of
\* encode_head_inner; a `?` inside it leaves with what was pushed so far,
\* and `name.expect(..)` panics on an entry that comes with no name.
\* asserted: a debug_assert!(!skip_len) of the loop met skip_len = true.
RECURSIVE encode_headers(_, _, _)
encode_headers(hs, force_close, acc) ==
    IF hs = <<>> \/ acc.err # "none" THEN acc
    ELSE LET h == Head(hs)
             nxt ==
               CASE h.n = "None" -> [acc EXCEPT !.err = "Panic"]
                 [] h.n = "content-length" ->
                      IF h.num >= 0
                      THEN Push([acc EXCEPT !.encoding = TE_length(h.num),
                                            !.skip_len = TRUE,
                                            !.asserted = @ \/ acc.skip_len], h)
                      ELSE [acc EXCEPT !.err = "HeaderValue",
                                       !.asserted = @ \/ acc.skip_len]
                 [] h.n = "transfer-encoding" ->
                      Push([acc EXCEPT !.encoding = chunked_from(acc.ctype),
                                       !.skip_len = TRUE,
                                       !.asserted = @ \/ acc.skip_len], h)
                 [] h.n = "connection" -> connection_arm(acc, h, force_close)
                 [] h.n = "date" -> Push([acc EXCEPT !.skip_date = TRUE], h)
                 [] OTHER -> Push(acc, h)
         IN encode_headers(Tail(hs), force_close, nxt)

\* Context::encode_head_inner.  parts = [status, version, headers],
\* size = [kind, n], c = the context.  The result carries the head scratch,
\* the encoder and the context afterwards.
encode_head_inner(parts, size, c) ==
    LET status == parts.status
        refused == status # 101 /\ ~(c.connect /\ is_success(status))
                     /\ is_informational(status)
        skip_len0 == status # 101 /\ c.connect /\ is_success(status)
        acc0 == [buf |-> <<StatusLine(parts.version, status)>>,
                 encoding |-> TE_eof, skip_len |-> skip_len0,
                 skip_date |-> FALSE, ctype |-> c.ctype, err |-> "none",
                 asserted |-> FALSE]
        a == encode_headers(drain(parts.headers), c.force_close, acc0)
        b == IF c.force_close THEN Push(a, Hdr("connection", 0, <<"close">>)) ELSE a
        d == encode_size(b, size)
        e == IF d.skip_date THEN Push(d, Hdr("end", 0, <<>>))
             ELSE Push(Push(d, Hdr("date", 0, <<"cached">>)), Hdr("end", 0, <<>>))
    IN IF refused
       THEN [ok |-> FALSE, err |-> "StatusCode", buf |-> <<>>,
             encoding |-> TE_eof, ctx |-> c, asserted |-> FALSE]
       ELSE IF a.err # "none"
       THEN [ok |-> FALSE, err |-> a.err, buf |-> a.buf,
             encoding |-> a.encoding, ctx |-> [c EXCEPT !.ctype = a.ctype],
             asserted |-> a.asserted]
       ELSE [ok |-> TRUE, err |-> "none", buf |-> e.buf,
             encoding |-> e.encoding, ctx |-> [c EXCEPT !.ctype = e.ctype],
             asserted |-> a.asserted]

\* What a call of encode_head_inner comes to in the two builds: where a
\* debug_assert! of the header loop fails, a build with debug assertions
\* panics there and a build without them goes on.
encode_head_builds(parts, size, c) ==
    LET e == encode_head_inner(parts, size, c)
    IN IF e.asserted
       THEN {e, [ok |-> FALSE, err |-> "Panic", buf |-> <<>>,
                 encoding |-> TE_eof, ctx |-> c, asserted |-> TRUE]}
       ELSE {e}

\* WriteBuf::write_head: the closure writes the head into a scratch; the
\* head reaches the write buffer whole or, on an error, not at all.
write_head(buf, r, rid) ==
    IF r.ok THEN Append(buf, HeadTok(rid, r.buf)) ELSE buf

\* Context::encode_continue
encode_continue(buf, id) == Append(buf, Tok("continue", id, 0))

\* ------------------------------------------------- parsed request heads
RK(parse, ver, conn, expect, len) ==
    [id |-> 0, parse |-> parse, ver |-> ver, conn |-> conn,
     expect |-> expect, connect |-> FALSE, len |-> len]

\* What Context::decode_head may make of the bytes at the front of the read
\* buffer: a request (plain, with a body, with Expect: 100-continue,
\* Connection: close, HTTP/1.0, Connection: upgrade) or a parse error.
ReqKinds ==
    { RK("ok", "HTTP/1.1", "none", FALSE, 0),
      RK("ok", "HTTP/1.1", "none", FALSE, MaxBody),
      RK("ok", "HTTP/1.1", "none", TRUE, 1),
      RK("ok", "HTTP/1.1", "close", FALSE, 0),
      RK("ok", "HTTP/1.0", "none", FALSE, 0),
      RK("ok", "HTTP/1.1", "upgrade", FALSE, 0),
      RK("toolarge", "HTTP/1.1", "none", FALSE, 0),
      RK("bad", "HTTP/1.1", "none", FALSE, 0) }

NoReq == RK("ok", "HTTP/1.1", "none", FALSE, 0)

\* A run of bytes the peer sent; seen is the parse error the head parser
\* has returned for them, which it returns again for the same bytes.
Unit(id) == [id |-> id, seen |-> "none"]

\* ----------------------------------------------------------- the service
Size(kind, n) == [kind |-> kind, n |-> n]

Resp(status, headers, size, len, echo) ==
    [status |-> status, version |-> "HTTP/1.1", headers |-> headers,
     size |-> size, len |-> len, echo |-> echo]

\* The responses a service may return: a sized body, a stream that keeps the
\* request body, `connection: close`, a Content-Length larger than the body,
\* an unparsable Content-Length, a 1xx status.
RespSet ==
    { Resp(200, <<>>, Size("Sized", 1), 1, FALSE),
      Resp(200, <<>>, Size("Stream", 0), 1, TRUE),
      Resp(200, <<Hdr("connection", 0, <<"close">>)>>, Size("None", 0), 0, FALSE),
      Resp(200, <<Hdr("content-length", 2, <<>>)>>, Size("Stream", 0), 1, FALSE),
      Resp(200, <<Hdr("x-a", 0, <<>>), Hdr("content-length", -1, <<>>)>>,
           Size("None", 0), 0, FALSE),
      Resp(100, <<>>, Size("None", 0), 0, FALSE) }

\* response::header_too_large and response::bad_request
header_too_large == Resp(431, <<>>, Size("None", 0), 0, FALSE)

bad_request == Resp(400, <<>>, Size("None", 0), 0, FALSE)

\* ------------------------------------------------------------- Context
set_force_close(c) == [c EXCEPT !.force_close = TRUE]

\* Context::decode_head: the result for the bytes parsed as k.
decode_head_kind(k) ==
    CASE k.parse = "ok" -> "Ok"
      [] k.parse = "toolarge" -> "HeaderTooLarge"
      [] OTHER -> "Parse"

\* Context::decode_head on success: the flags and the connection type the
\* request head sets.
decode_head_ctx(c, h) ==
    [c EXCEPT !.expect = h.expect,
              !.connect = h.connect,
              !.ctype = CASE h.conn = "close" -> "Close"
                          [] h.conn = "keep-alive" -> "KeepAlive"
                          [] h.conn = "upgrade" -> "Upgrade"
                          [] OTHER -> IF h.ver = "HTTP/1.0" THEN "Close" ELSE "KeepAlive"]

\* ------------------------------------------------- the request-body channel
NoHandle == [alive |-> FALSE, rem |-> 0]

\* The channel keeps, besides its queue, what the sender did: terms counts
\* the terminators fed (feed_eof, feed_error), late the bytes fed after one,
\* last is the last read token fed and order says that every token fed came
\* after the one fed before it.
\* RequestBody::empty()
EmptyChan == [q |-> 0, fed |-> 0, eof |-> TRUE, err |-> FALSE, rx |-> TRUE,
              terms |-> 0, late |-> 0, last |-> 0, order |-> TRUE]

\* RequestBody::create(false)
NewChan == [q |-> 0, fed |-> 0, eof |-> FALSE, err |-> FALSE, rx |-> TRUE,
            terms |-> 0, late |-> 0, last |-> 0, order |-> TRUE]

\* feed_data with the bytes of the read tokens toks.
feed_data(ch, toks) ==
    LET k == Len(toks)
    IN [ch EXCEPT !.fed = @ + k, !.q = IF ch.rx THEN @ + k ELSE @,
                  !.late = IF ch.terms > 0 THEN @ + k ELSE @,
                  !.order = /\ @
                            /\ \A i \in 1..k :
                                 toks[i].id > (IF i = 1 THEN ch.last ELSE toks[i - 1].id),
                  !.last = toks[k].id]

feed_eof(ch) == [ch EXCEPT !.eof = TRUE, !.terms = @ + 1]

feed_error(ch) == [ch EXCEPT !.err = TRUE, !.terms = @ + 1]

\* RequestBodySender::ready: "Ok" once the consumer has drained the queue,
\* "Err" when the consumer is gone, "Pending" otherwise.
sender_ready(ch) ==
    IF ~ch.rx THEN "Err" ELSE IF ch.q = 0 THEN "Ok" ELSE "Pending"

\* RequestBodyHandle::new_pair
new_pair(len) ==
    IF len = 0 THEN [handle |-> NoHandle, chan |-> EmptyChan]
    ELSE [handle |-> [alive |-> TRUE, rem |-> len], chan |-> NewChan]

handle_decode_keeps_handle(h, buf, ch) ==
    LET k == Min(h.rem, Len(buf))
        ch1 == IF k > 0 THEN feed_data(ch, SubSeq(buf, 1, k)) ELSE ch
        rest == SubSeq(buf, k + 1, Len(buf))
    IN IF h.rem - k = 0
       THEN [state |-> "Eof", handle |-> [h EXCEPT !.rem = 0], buf |-> rest,
             chan |-> feed_eof(ch1)]
       ELSE [state |-> "Continue", handle |-> [h EXCEPT !.rem = @ - k],
             buf |-> rest, chan |-> ch1]

\* RequestBodyHandle::decode over a Length decoder: feed what the buffer
\* holds, up to the remaining length; the empty slice at remaining 0 is Eof.
handle_decode(h, buf, ch) ==
    LET k == Min(h.rem, Len(buf))
        ch1 == IF k > 0 THEN feed_data(ch, SubSeq(buf, 1, k)) ELSE ch
        rest == SubSeq(buf, k + 1, Len(buf))
    IN IF h.rem - k = 0
       THEN [state |-> "Eof", handle |-> NoHandle, buf |-> rest, chan |-> feed_eof(ch1)]
       ELSE [state |-> "Continue", handle |-> [h EXCEPT !.rem = @ - k],
             buf |-> rest, chan |-> ch1]

\* ------------------------------------------------------------------ Io
read_backpressure(buf) == Len(buf) >= READ_BUF_LIMIT

write_backpressure(buf) == Len(buf) >= WRITE_BUF_LIMIT

RECURSIVE try_read_unbounded(_, _)
try_read_unbounded(buf, n) ==
    IF n = <<>>
    THEN {[buf |-> buf, net |-> n, at |-> <<Len(buf)>>]}
    ELSE UNION {
           {[r EXCEPT !.at = <<Len(buf)>> \o @] :
               r \in try_read_unbounded(buf \o SubSeq(n, 1, c), SubSeq(n, c + 1, Len(n)))}
           : c \in 1..Min(Len(n), MaxChunk)}

\* Io::try_read while the peer keeps the connection open: try_read_buf takes
\* 1..MaxChunk bytes of what the socket holds, in a loop that ends when the
\* socket would block or the read buffer is in backpressure.  Each outcome
\* carries the buffer length at (at) every call of try_read_buf it made.
RECURSIVE try_read(_, _)
try_read(buf, n) ==
    IF n = <<>>
    THEN {[buf |-> buf, net |-> n, at |-> <<Len(buf)>>]}
    ELSE UNION {
           LET buf2 == buf \o SubSeq(n, 1, c)
               n2 == SubSeq(n, c + 1, Len(n))
           IN IF read_backpressure(buf2)
              THEN {[buf |-> buf2, net |-> n2, at |-> <<Len(buf)>>]}
              ELSE {[r EXCEPT !.at = <<Len(buf)>> \o @] : r \in try_read(buf2, n2)}
           : c \in 1..Min(Len(n), MaxChunk)}

\* WriteBuf::try_write_io when the socket takes k bytes: true iff blocked.
try_write_io(buf, sk, k) ==
    [buf |-> SubSeq(buf, k + 1, Len(buf)),
     sock |-> sk \o SubSeq(buf, 1, k),
     blocked |-> k < Len(buf)]

\* ------------------------------------------------------------ the log
HasEv(e) == \E i \in DOMAIN log : log[i].e = e

\* The history kept when a new request is taken up: what belongs to the
\* request handled before it (id from) or came later.
Since(seq, from) == SelectSeq(seq, LAMBDA x : x.id >= from)

SinceTok(seq, from) == SelectSeq(seq, LAMBDA x : x.rid >= from)

\* -------------------------------------------------------------- Init
Init ==
    /\ pc = "top"
    /\ result = "none"
    /\ ctx = [ctype |-> "Init", force_close |-> FALSE, expect |-> FALSE, connect |-> FALSE]
    /\ req = NoReq
    /\ read_buf = <<>>
    /\ write_buf = <<>>
    /\ sock = <<>>
    /\ net = <<>>
    /\ peer = [tok |-> 0, st |-> "open"]
    /\ body_handle = NoHandle
    /\ chan = EmptyChan
    /\ fut = "none"
    /\ res_body = [rid |-> 0, left |-> 0, echo |-> FALSE]
    /\ encoder = TE_eof
    /\ log = <<>>

\* ------------------------------------------------------------ the peer
PeerSend ==
    /\ pc # "done"
    /\ Len(net) < SockBuf
    /\ peer.tok < MaxSent
    /\ net' = Append(net, Unit(peer.tok + 1))
    /\ peer' = [peer EXCEPT !.tok = @ + 1]
    /\ UNCHANGED <<pc, result, ctx, req, read_buf, write_buf, sock,
                   body_handle, chan, fut, res_body, encoder, log>>

\* ------------------------------------------------- Dispatcher::run, top
\* Dispatcher::run returns r.
Ret(r) == pc' = "done" /\ result' = r

\* From<io::Error> for Error: a reset by the peer is Error::Closed.
from_io_error(kind) == IF kind = "ConnectionReset" THEN "Closed" ELSE "Io"

run_forwards_closed(res) == res

\* What the caller of the outer run gets for the dispatcher's result res:
\* `Ok(_) | Err(Error::Closed) => Ok(())`, any other error as it is.
run(res) == IF res \in {"Ok", "Closed"} THEN "Ok" ELSE res

\* Where the Init arm goes when force-close is set: `return Ok(())`.
init_force_close_next == "done"

timeout_returns(ctype) == "done"

\* Where a timeout of the read goes: Init returns, KeepAlive shuts down.
timeout_next(ctype) == IF ctype = "Init" THEN "done" ELSE "shutdown"

\* Init/KeepAlive arm with force-close set; Upgrade/Close arm.
TopShutdown ==
    /\ pc = "top"
    /\ \/ /\ ctx.ctype = "Init" /\ ctx.force_close
          /\ pc' = init_force_close_next
          /\ result' = "Ok"
          /\ log' = log
       \/ /\ \/ ctx.ctype = "KeepAlive" /\ ctx.force_close
             \/ ctx.ctype \in {"Close", "Upgrade"}
          /\ pc' = "shutdown"
          /\ result' = result
          /\ log' = Append(log, Ev("shutdown", 0, ctx.ctype))
    /\ UNCHANGED <<ctx, req, read_buf, write_buf, sock, net, peer,
                   body_handle, chan, fut, res_body, encoder>>

WaitingRead_force_close_ignored == pc = "top" /\ ctx.ctype \in {"Init", "KeepAlive"}

\* The Init and KeepAlive arms wait for a read only without force-close.
WaitingRead == pc = "top" /\ ctx.ctype \in {"Init", "KeepAlive"} /\ ~ctx.force_close

\* self.io.read() resolved before the timer: ready(READABLE), then try_read.
TopRead ==
    /\ WaitingRead
    /\ net # <<>>
    /\ \E r \in try_read(read_buf, net) :
          /\ read_buf' = r.buf
          /\ net' = r.net
    /\ pc' = "parse"
    /\ UNCHANGED <<result, ctx, req, write_buf, sock, peer, body_handle, chan,
                   fut, res_body, encoder, log>>

\* The timer resolved first.
TopTimeout ==
    /\ WaitingRead
    /\ pc' = timeout_next(ctx.ctype)
    /\ result' = IF timeout_next(ctx.ctype) = "done" THEN "Ok" ELSE result
    /\ log' = log \o <<Ev("timeout", 0, ctx.ctype)>>
                  \o (IF timeout_next(ctx.ctype) = "shutdown"
                      THEN <<Ev("shutdown", 0, ctx.ctype)>> ELSE <<>>)
    /\ UNCHANGED <<ctx, req, read_buf, write_buf, sock, net, peer,
                   body_handle, chan, fut, res_body, encoder>>

\* ------------------------------------------------ the 'req parse loop
request_error_ctx_unset(c) == c

\* Dispatcher::request_error: the context the canned head is encoded with.
request_error_ctx(c) == set_force_close(c)

\* `if self.ctx.is_force_close() { break 'req }` after response_handler.
after_response(c) == IF c.force_close THEN "drain" ELSE "parse"

head_error_ignored == "drain"

\* `self.encode_head(parts, &res_body)?` failed: run returns the error.
head_error_next == "done"

\* The bytes at the front of the read buffer that decode_head has already
\* found to be the beginning of a head, not yet complete.
RECURSIVE PartialLen(_)
PartialLen(buf) ==
    IF buf = <<>> \/ Head(buf).seen # "partial" THEN 0
    ELSE 1 + PartialLen(Tail(buf))

\* decode_head on a buffer that holds no complete head: None (more bytes
\* are needed) below READ_BUF_LIMIT, HeaderTooLarge from there on.
decode_head_partial(buf) ==
    IF read_backpressure(buf) THEN "HeaderTooLarge" ELSE "None"

\* decode_head returned None, on an empty buffer or on the beginning of a
\* head: leave the loop and drain the write buffer.
ParseNone ==
    /\ pc = "parse"
    /\ decode_head_partial(read_buf) = "None"
    /\ \A i \in DOMAIN read_buf : read_buf[i].seen \in {"none", "partial"}
    /\ read_buf' = [i \in DOMAIN read_buf |-> [read_buf[i] EXCEPT !.seen = "partial"]]
    /\ pc' = "drain"
    /\ UNCHANGED <<result, ctx, req, write_buf, sock, net, peer,
                   body_handle, chan, fut, res_body, encoder, log>>

\* decode_head returned a request: the body pair is made and
\* request_handler entered.
ParseOk ==
    /\ pc = "parse"
    /\ Len(read_buf) > PartialLen(read_buf)
    /\ \E k \in ReqKinds :
       LET last == PartialLen(read_buf) + 1
           h == [k EXCEPT !.id = read_buf[last].id]
           np == new_pair(h.len)
       IN /\ decode_head_kind(k) = "Ok"
          /\ read_buf[last].seen = "none"
          /\ req' = h
          /\ ctx' = decode_head_ctx(ctx, h)
          /\ read_buf' = SubSeq(read_buf, last + 1, Len(read_buf))
          /\ body_handle' = np.handle
          /\ chan' = np.chan
          /\ pc' = IF decode_head_ctx(ctx, h).expect THEN "expect" ELSE "call"
    /\ log' = Since(log, req.id)
    /\ sock' = SinceTok(sock, req.id)
    /\ UNCHANGED <<result, write_buf, net, peer, fut, res_body, encoder>>

\* decode_head returned a parse error: request_error with the canned
\* response, then break.
ParseErr ==
    /\ pc = "parse"
    /\ Len(read_buf) > PartialLen(read_buf)
    /\ \E k \in ReqKinds :
       LET kind == decode_head_kind(k)
           res == IF kind = "HeaderTooLarge" THEN header_too_large ELSE bad_request
           e == encode_head_inner(res, res.size, request_error_ctx(ctx))
           last == PartialLen(read_buf) + 1
           id == read_buf[last].id
       IN /\ kind \in {"HeaderTooLarge", "Parse"}
          /\ read_buf[last].seen \in {"none", kind}
          /\ read_buf' = [read_buf EXCEPT ![last].seen = kind]
          /\ ctx' = e.ctx
          /\ write_buf' = write_head(write_buf, e, id)
          /\ IF e.ok
             THEN /\ pc' = "drain" /\ result' = result
                  /\ log' = log \o <<Ev("request_error", id, kind),
                                     Ev("head", id, e.ctx.ctype)>>
             ELSE /\ pc' = head_error_next /\ result' = "Proto"
                  /\ log' = log \o <<Ev("request_error", id, kind),
                                     Ev("head_err", id, e.err)>>
    /\ UNCHANGED <<req, sock, net, peer, body_handle, chan, fut, res_body, encoder>>

\* ------------------------------------------------------ request_handler
continue_not_drained == "call"

\* After encode_continue: drain_write before the service is called.
continue_next == "drain_continue"

expect_call_ignores_error(res) == [continue |-> TRUE, ret |-> "none"]

\* `match self.flow.expect.call(req).await`: Ok encodes 100 Continue and
\* goes on, Err returns Error::Service at once.
expect_call(res) ==
    IF res = "Ok" THEN [continue |-> TRUE, ret |-> "none"]
    ELSE [continue |-> FALSE, ret |-> "Service"]

\* The expect part of request_handler for the outcome res of the expect
\* service.
ExpectArm(res) ==
    LET a == expect_call(res)
    IN /\ pc = "expect"
       /\ write_buf' = IF a.continue THEN encode_continue(write_buf, req.id)
                        ELSE write_buf
       /\ log' = log \o <<Ev("expect", req.id, res)>>
                      \o (IF a.continue THEN <<Ev("continue", req.id, "")>> ELSE <<>>)
       /\ IF a.ret = "none"
          THEN pc' = continue_next /\ result' = result
          ELSE Ret(a.ret)
       /\ UNCHANGED <<ctx, req, read_buf, sock, net, peer, body_handle,
                      chan, fut, res_body, encoder>>

\* The expect service returned Ok: encode_continue.
ExpectOk == ExpectArm("Ok")

\* The expect service returned Err: Error::Service.
ExpectErr == ExpectArm("Err")

\* self.flow.service.call(req)
ServiceCall ==
    /\ pc = "call"
    /\ fut' = "running"
    /\ log' = Append(log, Ev("call", req.id, IF req.expect THEN "expect" ELSE "plain"))
    /\ pc' = "req"
    /\ UNCHANGED <<result, ctx, req, read_buf, write_buf, sock, net, peer,
                   body_handle, chan, res_body, encoder>>

\* Head of `while let Some(handle) = body_handle`: handle.decode.
ReqLoop ==
    /\ pc = "req"
    /\ IF ~body_handle.alive
       THEN /\ pc' = "fut_await"
            /\ UNCHANGED <<body_handle, read_buf, chan>>
       ELSE LET d == handle_decode(body_handle, read_buf, chan)
            IN /\ body_handle' = d.handle
               /\ read_buf' = d.buf
               /\ chan' = d.chan
               /\ pc' = IF d.state = "Eof" THEN "fut_await" ELSE "req_select"
    /\ UNCHANGED <<result, ctx, req, write_buf, sock, net, peer, fut,
                   res_body, encoder, log>>

PollingFut == pc \in {"req_select", "fut_await"} /\ fut = "running"

\* The service reads what the channel holds.
SvcRead ==
    /\ PollingFut
    /\ chan.rx /\ chan.q > 0
    /\ chan' = [chan EXCEPT !.q = 0]
    /\ UNCHANGED <<pc, result, ctx, req, read_buf, write_buf, sock, net, peer,
                   body_handle, fut, res_body, encoder, log>>

\* The service drops the request body before its end.
SvcDrop ==
    /\ PollingFut
    /\ chan.rx /\ body_handle.alive
    /\ chan' = [chan EXCEPT !.rx = FALSE, !.q = 0]
    /\ UNCHANGED <<pc, result, ctx, req, read_buf, write_buf, sock, net, peer,
                   body_handle, fut, res_body, encoder, log>>

\* The service future completed with a response: encode_head, then
\* response_handler is entered.
SvcOk ==
    /\ PollingFut
    /\ \E r \in RespSet :
       \E e \in encode_head_builds(r, r.size, ctx) :
            /\ ctx' = e.ctx
            /\ write_buf' = write_head(write_buf, e, req.id)
            /\ fut' = "done"
            /\ chan' = IF r.echo THEN chan ELSE [chan EXCEPT !.rx = FALSE, !.q = 0]
            /\ IF e.ok
               THEN /\ pc' = "resp" /\ result' = result
                    /\ encoder' = e.encoding
                    /\ res_body' = [rid |-> req.id, left |-> r.len, echo |-> r.echo]
                    /\ log' = Append(log, Ev("head", req.id, e.ctx.ctype))
               ELSE /\ pc' = head_error_next
                    /\ result' = IF e.err = "Panic" THEN "Panic" ELSE "Proto"
                    /\ UNCHANGED <<encoder, res_body>>
                    /\ log' = Append(log, Ev("head_err", req.id, e.err))
    /\ UNCHANGED <<req, read_buf, sock, net, peer, body_handle>>

\* The service future completed with an error: Error::Service.
SvcErr ==
    /\ PollingFut
    /\ fut' = "done"
    /\ Ret("Service")
    /\ UNCHANGED <<ctx, req, read_buf, write_buf, sock, net, peer, body_handle,
                   chan, res_body, encoder, log>>

\* ---------------------------------------- Io::readable in the two selects
Selecting == pc \in {"req_select", "resp_select"} /\ body_handle.alive

readable_ignores_handle(buf, ready) ==
    IF read_backpressure(buf) THEN "Pending" ELSE "Ok"

readable_always_pending(buf, ready) == "Pending"

\* Io::readable once the socket is readable: pending for ever under read
\* backpressure, else what handle.ready(ctx) resolves to (ready).
readable(buf, ready) ==
    IF read_backpressure(buf) THEN "Pending" ELSE ready

\* readable() resolved Ok: try_read, back to the head of the loop.
ReadableOk ==
    /\ Selecting
    /\ net # <<>>
    /\ readable(read_buf, sender_ready(chan)) = "Ok"
    /\ \E r \in try_read(read_buf, net) :
          /\ read_buf' = r.buf
          /\ net' = r.net
    /\ pc' = (IF pc = "req_select" THEN "req" ELSE "resp")
    /\ UNCHANGED <<result, ctx, req, write_buf, sock, peer, body_handle, chan,
                   fut, res_body, encoder, log>>

\* The socket is readable (data, or the peer's close) and handle.ready()
\* resolved Err, the consumer is gone: set_force_close in
\* RequestBodyHandle::ready, then feed_error and the handle is dropped.
ReadableDropped ==
    /\ Selecting
    /\ readable(read_buf, sender_ready(chan)) = "Err"
    /\ ctx' = set_force_close(ctx)
    /\ chan' = feed_error(chan)
    /\ body_handle' = NoHandle
    /\ log' = Append(log, Ev("rx_dropped", req.id, ""))
    /\ pc' = (IF pc = "req_select" THEN "fut_await" ELSE "resp")
    /\ UNCHANGED <<result, req, read_buf, write_buf, sock, net, peer, fut,
                   res_body, encoder>>

\* io.ready(READABLE) resolved Err inside readable(): feed_error and the
\* handle is dropped.
ReadableIoErr ==
    /\ Selecting
    /\ ~read_backpressure(read_buf)
    /\ chan' = feed_error(chan)
    /\ body_handle' = NoHandle
    /\ log' = Append(log, Ev("io_err", req.id, ""))
    /\ pc' = (IF pc = "req_select" THEN "fut_await" ELSE "resp")
    /\ UNCHANGED <<result, ctx, req, read_buf, write_buf, sock, net, peer, fut,
                   res_body, encoder>>

\* ----------------------------------------------------- response_handler
early_end_ctx_unset(c, h, ch) == c

body_some_returns(c) == IF c.force_close THEN "drain" ELSE "parse"

\* After `encoder.encode(bytes, ..)` the response_handler loop continues.
body_some_next(c) == "resp"

\* `if !handle.sender.is_eof() { self.ctx.set_force_close() }` of the arm
\* where the response body ended while the request-body handle is alive.
early_end_ctx(c, h, ch) ==
    IF h.alive /\ ~ch.eof THEN set_force_close(c) ELSE c

response_loop_never_drains(bp) == "resp_select"

\* Where an iteration of the response_handler loop goes: `if
\* self.io.write_buf.backpressure() { drain_write } else { select }`.
response_loop_next(bp) == IF bp THEN "drain_bp" ELSE "resp_select"

\* Head of the loop: backpressure check, else handle.decode.
RespLoop ==
    /\ pc = "resp"
    /\ IF response_loop_next(write_backpressure(write_buf)) = "drain_bp"
       THEN /\ pc' = "drain_bp"
            /\ UNCHANGED <<body_handle, read_buf, chan>>
       ELSE IF body_handle.alive
       THEN LET d == handle_decode(body_handle, read_buf, chan)
            IN /\ body_handle' = d.handle
               /\ read_buf' = d.buf
               /\ chan' = d.chan
               /\ pc' = "resp_select"
       ELSE /\ pc' = "resp_select"
            /\ UNCHANGED <<body_handle, read_buf, chan>>
    /\ UNCHANGED <<result, ctx, req, write_buf, sock, net, peer, fut,
                   res_body, encoder, log>>

\* body.next() yielded Some(bytes): encoder.encode.
BodySome ==
    /\ pc = "resp_select"
    /\ res_body.left > 0
    /\ LET e == encode(encoder, 1, res_body.rid)
       IN /\ write_buf' = write_buf \o e.out
          /\ encoder' = e.enc
    /\ res_body' = [res_body EXCEPT !.left = @ - 1]
    /\ pc' = body_some_next(ctx)
    /\ UNCHANGED <<result, ctx, req, read_buf, sock, net, peer, body_handle,
                   chan, fut, log>>

\* A response stream that echoes the request body reads the channel.
BodyRead ==
    /\ pc = "resp_select"
    /\ res_body.echo /\ chan.rx /\ chan.q > 0
    /\ chan' = [chan EXCEPT !.q = 0]
    /\ UNCHANGED <<pc, result, ctx, req, read_buf, write_buf, sock, net, peer,
                   body_handle, fut, res_body, encoder, log>>

\* body.next() yielded Some(Err): `bytes?`.
BodyErr ==
    /\ pc = "resp_select"
    /\ res_body.echo /\ res_body.left > 0
    /\ Ret("Body")
    /\ UNCHANGED <<ctx, req, read_buf, write_buf, sock, net, peer, body_handle,
                   chan, fut, res_body, encoder, log>>

\* body.next() yielded None: force-close when the request body is left
\* unread, encode_eof, return to run.
BodyNone ==
    /\ pc = "resp_select"
    /\ res_body.left = 0
    /\ LET c1 == early_end_ctx(ctx, body_handle, chan)
           ee == encode_eof(encoder, res_body.rid)
           early == IF body_handle.alive /\ ~chan.eof
                    THEN <<Ev("early_end", res_body.rid, "")>> ELSE <<>>
       IN /\ ctx' = c1
          /\ log' = log \o early \o <<Ev("eof", res_body.rid, "")>>
          /\ write_buf' = write_buf \o ee.out
          /\ IF ee.panic THEN Ret("Panic")
             ELSE pc' = after_response(c1) /\ result' = result
    /\ body_handle' = NoHandle
    /\ fut' = "none"
    /\ UNCHANGED <<req, read_buf, sock, net, peer, chan, res_body, encoder>>

\* writable() resolved: one try_write, then flush.
Writable ==
    /\ pc = "resp_select"
    /\ write_buf # <<>>
    /\ \E k \in 1..Len(write_buf) :
         LET w == try_write_io(write_buf, sock, k)
         IN write_buf' = w.buf /\ sock' = w.sock
    /\ pc' = "resp"
    /\ UNCHANGED <<result, ctx, req, read_buf, net, peer, body_handle, chan,
                   fut, res_body, encoder, log>>

\* ---------------------------------------------------- Io::drain_write
DrainPcs == {"drain", "drain_continue", "drain_bp", "shutdown"}

\* Where each drain_write continues: line 333 loops, the 100 Continue
\* drain calls the service, the backpressure drain resumes the response,
\* Io::shutdown returns from run.
drain_next(p) ==
    CASE p = "drain" -> "top"
      [] p = "drain_continue" -> "call"
      [] p = "drain_bp" -> "resp"
      [] p = "shutdown" -> "done"

drain_write_once(blocked, p) == drain_next(p)

\* `while self.try_write()? { .. }`: drain_write goes on only when try_write
\* returned false (nothing left in the buffer).
drain_write_next(blocked, p) == IF blocked THEN p ELSE drain_next(p)

\* `while self.try_write()? { ready(WRITABLE) }` then flush: the socket takes
\* k bytes; drain_write returns once the buffer is empty.
DrainWrite ==
    /\ pc \in DrainPcs
    /\ \E k \in (IF write_buf = <<>> THEN {0} ELSE 1..Len(write_buf)) :
         LET w == try_write_io(write_buf, sock, k)
         IN /\ write_buf' = w.buf
            /\ sock' = w.sock
            /\ pc' = drain_write_next(w.blocked, pc)
            /\ result' = IF drain_write_next(w.blocked, pc) = "done" THEN "Ok" ELSE result
    /\ UNCHANGED <<ctx, req, read_buf, net, peer, body_handle, chan, fut,
                   res_body, encoder, log>>

\* The peer closed the connection and a try_read met the read of 0 bytes,
\* after the bytes still in flight: Error::Closed, which ends run.
ReadClosed ==
    /\ \/ WaitingRead
       \/ Selecting /\ readable(read_buf, sender_ready(chan)) = "Ok"
    /\ ~read_backpressure(read_buf \o net)
    /\ read_buf' = read_buf \o net
    /\ net' = <<>>
    /\ peer' = [peer EXCEPT !.st = "closed"]
    /\ Ret("Closed")
    /\ UNCHANGED <<ctx, req, write_buf, sock, body_handle, chan, fut,
                   res_body, encoder, log>>

\* A socket call failed with an error other than WouldBlock: ready() or
\* try_read at the top, try_read after readable(), try_write: run returns it.
IoFail ==
    /\ \/ WaitingRead
       \/ pc \in DrainPcs /\ write_buf # <<>>
       \/ pc = "resp_select" /\ write_buf # <<>>
       \/ Selecting /\ readable(read_buf, sender_ready(chan)) = "Ok"
    /\ \E kind \in {"ConnectionReset", "Other"} :
          /\ peer' = [peer EXCEPT !.st = IF kind = "ConnectionReset"
                                         THEN "reset" ELSE @]
          /\ Ret(from_io_error(kind))
    /\ UNCHANGED <<ctx, req, read_buf, write_buf, sock, net, body_handle,
                   chan, fut, res_body, encoder, log>>

\* ------------------------------------------------------------- the spec
Next ==
    \/ PeerSend
    \/ TopShutdown \/ TopRead \/ TopTimeout
    \/ ParseNone \/ ParseOk \/ ParseErr
    \/ ExpectOk \/ ExpectErr \/ ServiceCall \/ ReqLoop
    \/ SvcRead \/ SvcDrop \/ SvcOk \/ SvcErr
    \/ ReadableOk \/ ReadableDropped \/ ReadableIoErr
    \/ RespLoop \/ BodySome \/ BodyRead \/ BodyErr \/ BodyNone \/ Writable
    \/ DrainWrite \/ ReadClosed \/ IoFail

Spec == Init /\ [][Next]_vars

\* ======================================================== properties
Stream == sock \o write_buf

Dispatches == {i \in DOMAIN log : log[i].e \in {"call", "expect"}}

NumDispatch == Cardinality(Dispatches)

\* This step called the expect service or the service.
NewDispatch ==
    /\ Len(log') > Len(log)
    /\ \E i \in (Len(log) + 1)..Len(log') : log'[i].e \in {"call", "expect"}

\* A response head the service's response produced (not a canned error head).
ServiceHead(i) ==
    log[i].e = "head" /\ ~(i > 1 /\ log[i - 1].e = "request_error")

ResponsesComplete ==
    \A i \in DOMAIN log :
        ServiceHead(i) =>
            \E j \in DOMAIN log : j > i /\ log[j].e = "eof" /\ log[j].id = log[i].id

Toks(seq, t) == {i \in DOMAIN seq : seq[i].t = t}

HasLine(lines, n) == \E i \in DOMAIN lines : lines[i].n = n

\* C1: once force-close is set on a connection no further request is
\* dispatched (neither the expect service nor the service is called again);
\* and when run then returns Ok, every response begun has had its body
\* encoded to encode_eof and the write buffer has been drained to the socket.
C1_ForceCloseMonotone ==
    /\ [][ctx.force_close => ~NewDispatch]_vars
    /\ [](ctx.force_close /\ result = "Ok" =>
            pc = "done" /\ write_buf = <<>> /\ ResponsesComplete)

\* C1 witness: force-close was set after a request had been dispatched, run
\* returned Ok, and bytes the peer sent after it were left undispatched.
C1_Witness ==
    /\ ctx.force_close /\ result = "Ok" /\ NumDispatch > 0
    /\ read_buf \o net # <<>>

Rel == SelectSeq(log, LAMBDA ev : ev.e \in {"call", "head", "eof", "head_err"})

HeadPos(seq, rid) == {i \in DOMAIN seq : seq[i].t = "head" /\ seq[i].rid = rid}

\* C2: requests are dispatched in the order they arrived, one service future
\* at a time; a request is dispatched only when the previous response has
\* been through encode_eof; a response head is encoded only right after its
\* own request's dispatch (or, for a canned error head, after the previous
\* encode_eof); and on the byte stream every token of response i precedes
\* the head of response i+1.
C2_PipelineInOrder ==
    LET r == Rel
    IN /\ \A i \in DOMAIN r :
            /\ r[i].e = "call" => (i = 1 \/ r[i - 1].e = "eof")
            /\ r[i].e \in {"head", "head_err"} =>
                   (i = 1 \/ r[i - 1].e \in {"call", "eof"})
            /\ r[i].e = "eof" => (i > 1 /\ r[i - 1].e = "head" /\ r[i - 1].id = r[i].id)
       /\ \A i, j \in DOMAIN r :
            (i < j /\ r[i].e = r[j].e /\ r[i].e \in {"call", "head"}) => r[i].id < r[j].id
       /\ fut = "running" => (r # <<>> /\ r[Len(r)].e = "call")
       /\ \A i, j \in DOMAIN Stream :
            (i < j /\ Stream[j].t = "head") => Stream[i].rid < Stream[j].rid
                                                 \/ Stream[i].t = "continue"

\* C2 witness: two pipelined requests were dispatched and both responses
\* reached encode_eof.
C2_Witness ==
    /\ Cardinality({i \in DOMAIN log : log[i].e = "call"}) >= 2
    /\ Cardinality({i \in DOMAIN log : log[i].e = "eof"}) >= 2
    /\ result = "Ok"

\* C3 (as claimed): the next request head is parsed only when the body of
\* the previous request was decoded to EOF or the request had no body.
C3_ParseOnlyAfterBodyEof == pc = "parse" => chan.eof

Unread == HasEv("early_end") \/ HasEv("rx_dropped")

LastHead == CHOOSE i \in DOMAIN log :
                log[i].e = "head" /\ \A j \in DOMAIN log : log[j].e = "head" => j <= i

\* C4: when the response body ends while the request-body handle is alive
\* and short of EOF, or handle.ready() reports the consumer dropped,
\* force-close is set; from then on nothing is read from the socket or taken
\* from the read buffer and nothing is dispatched; and when run returns Ok
\* the response went through encode_eof, its chunked terminator included,
\* every byte was written, and the connection was shut down.
C4_UnreadBodyForceClose ==
    /\ [](Unread => ctx.force_close)
    /\ [][Unread => /\ Len(net') >= Len(net)
                    /\ read_buf' = read_buf
                    /\ ~NewDispatch]_vars
    /\ [](Unread /\ result = "Ok" =>
            /\ write_buf = <<>>
            /\ ResponsesComplete
            /\ HasEv("shutdown")
            /\ (encoder.kind = "EncodeChunked" =>
                   \E i \in Toks(sock, "term") : sock[i].rid = log[LastHead].id))

\* C4 witness: the service dropped the body of a request whose remaining
\* bytes never were read, the chunked response was written and run ended Ok.
C4_Witness ==
    /\ Unread /\ result = "Ok" /\ net # <<>>
    /\ encoder.kind = "EncodeChunked"

ContinueEvents(id) == {i \in DOMAIN log : log[i].e = "continue" /\ log[i].id = id}

\* C5: a request with Expect: 100-continue gets exactly one 100 Continue,
\* encoded right after the expect service returned Ok and before the service
\* is called; while the service future runs no 100 Continue is left in the
\* write buffer; no body byte is fed to the channel before the service is
\* called; a request without the header gets none.
C5_ContinueOnceBeforeBody ==
    /\ \A i \in DOMAIN log :
          /\ (log[i].e = "call" /\ log[i].ct = "expect") =>
                /\ Cardinality(ContinueEvents(log[i].id)) = 1
                /\ \A j \in ContinueEvents(log[i].id) : j < i
          /\ (log[i].e = "call" /\ log[i].ct = "plain") =>
                ContinueEvents(log[i].id) = {}
          /\ log[i].e = "continue" =>
                (i > 1 /\ log[i - 1].e = "expect" /\ log[i - 1].id = log[i].id)
    /\ Cardinality(Toks(Stream, "continue"))
          = Cardinality({i \in DOMAIN log : log[i].e = "continue"})
    /\ pc \in {"req", "req_select", "fut_await"} => Toks(write_buf, "continue") = {}
    /\ pc \in {"expect", "drain_continue", "call"} => chan.fed = 0

\* C5 witness: an expect request was dispatched after its 100 Continue
\* reached the socket, and body bytes were fed afterwards.
C5_Witness ==
    /\ \E i \in DOMAIN log : log[i].e = "call" /\ log[i].ct = "expect"
    /\ Toks(sock, "continue") # {}
    /\ chan.fed > 0

\* C6: a head that fails to parse is answered with 431 (HeaderTooLarge) or
\* 400 (any other parse error); the head carries `connection: close`, so
\* force-close was set before it was encoded; nothing is dispatched or
\* parsed afterwards, the failed request never reaches the service, and when
\* run returns Ok the write buffer is drained.
C6_ParseErrorResponse ==
    \A i \in DOMAIN log :
        log[i].e = "request_error" =>
            /\ i < Len(log) /\ log[i + 1].e = "head"
            /\ \A k \in HeadPos(Stream, log[i + 1].id) :
                  /\ Stream[k].lines[1].num
                        = (IF log[i].ct = "HeaderTooLarge" THEN 431 ELSE 400)
                  /\ \E l \in DOMAIN Stream[k].lines :
                        Stream[k].lines[l].n = "connection"
                          /\ Stream[k].lines[l].toks = <<"close">>
            /\ HeadPos(Stream, log[i + 1].id) # {}
            /\ ctx.force_close
            /\ \A j \in DOMAIN log :
                  j > i + 1 => log[j].e = "shutdown"
            /\ \A j \in DOMAIN log :
                  log[j].e \in {"call", "expect"} => log[j].id # log[i].id
            /\ pc = "done" => result \in {"Ok", "Io", "Closed"}
            /\ result = "Ok" => write_buf = <<>>

\* C6 witness: a too-large head behind an answered request got its 431 and
\* run ended Ok.
C6_Witness ==
    /\ \E i \in DOMAIN log : log[i].e = "request_error" /\ log[i].ct = "HeaderTooLarge"
    /\ HasEv("call")
    /\ result = "Ok"

BodyOf(rid) ==
    SelectSeq(sock, LAMBDA t : t.rid = rid /\ t.t \in {"data", "chunk", "term"})

LineNamed(lines, n) == CHOOSE l \in DOMAIN lines : lines[l].n = n

\* The body tokens agree with the framing the head lines announce.
Framed(lines, body) ==
    IF HasLine(lines, "content-length")
    THEN /\ Len(body) = lines[LineNamed(lines, "content-length")].num
         /\ \A i \in DOMAIN body : body[i].t = "data"
    ELSE IF HasLine(lines, "transfer-encoding")
    THEN /\ body # <<>>
         /\ body[Len(body)].t = "term"
         /\ \A i \in 1..(Len(body) - 1) : body[i].t = "chunk"
    ELSE \A i \in DOMAIN body : body[i].t = "data"

\* C7 (as claimed): once run has ended without an I/O or service error,
\* every response on the socket has the body its head announces: n bytes
\* after content-length n, chunks ended by the terminator after
\* transfer-encoding chunked, unframed bytes otherwise.
C7_FramingConsistent ==
    result \in {"Ok", "Panic"} =>
        \A k \in Toks(sock, "head") : Framed(sock[k].lines, BodyOf(sock[k].rid))

\* C8: a response head whose encoding fails ends run with the error at
\* once: no token of that head is in the write buffer or on the socket,
\* every head on the socket is whole (status line to the empty line), and
\* nothing is written to the socket after the failure.
C8_NoPartialHead ==
    /\ [](\A k \in Toks(Stream, "head") :
              /\ Stream[k].lines # <<>>
              /\ Stream[k].lines[1].n = "status-line"
              /\ Stream[k].lines[Len(Stream[k].lines)].n = "end")
    /\ [](\A i \in DOMAIN log :
              log[i].e = "head_err" =>
                  /\ pc = "done" /\ result = "Proto"
                  /\ HeadPos(Stream, log[i].id) = {})
    /\ [][HasEv("head_err") => sock' = sock]_vars

\* C8 witness: a head failed on its Content-Length value, after its status
\* line and a header had been produced, behind a response already written.
C8_Witness ==
    /\ \E i \in DOMAIN log : log[i].e = "head_err" /\ log[i].ct = "HeaderValue"
    /\ Toks(sock, "head") # {}

\* C9 (as claimed): after a response head was encoded with the connection
\* type Close, neither the expect service nor the service is called again.
C9_NoDispatchAfterClose ==
    \A i, j \in DOMAIN log :
        (i < j /\ log[i].e = "head" /\ log[i].ct = "Close")
            => log[j].e \notin {"call", "expect"}

\* C10: after the timer fired while run waited for a request nothing is
\* dispatched or encoded any more.  On an Init connection run has returned
\* Ok with nothing ever written and without a shutdown; on a KeepAlive
\* connection shutdown follows at once, and when run has returned it
\* returned Ok with the write buffer drained.
C10_TimeoutEndsConnection ==
    \A i \in DOMAIN log :
        log[i].e = "timeout" =>
            /\ \A j \in DOMAIN log : j > i => (j = i + 1 /\ log[j].e = "shutdown")
            /\ log[i].ct = "Init" =>
                  /\ pc = "done" /\ result = "Ok"
                  /\ sock = <<>> /\ write_buf = <<>>
                  /\ i = Len(log)
            /\ log[i].ct = "KeepAlive" =>
                  /\ i < Len(log) /\ log[i + 1].e = "shutdown"
                  /\ pc \in {"shutdown", "done"}
                  /\ pc = "done" => result = "Ok"
                  /\ write_buf = <<>>

\* C10 witness: a KeepAlive connection that answered a request timed out
\* while a request was on its way, and run returned Ok.
C10_Witness ==
    /\ \E i \in DOMAIN log : log[i].e = "timeout" /\ log[i].ct = "KeepAlive"
    /\ HasEv("call") /\ result = "Ok" /\ net # <<>>

\* C11 (as claimed): a service error is answered: when the expect service or
\* the service future returned Err, a response head for that request is
\* encoded, and run does not end on the error with no response for it.
C11_ServiceErrorAnswered ==
    result = "Service" => HeadPos(Stream, req.id) # {}

\* C12 (as claimed): once the body channel got its error terminator, by a
\* dropped consumer or by a socket readiness error, force-close is set
\* before decode_head is tried again.
C12_FeedErrorForcesClose ==
    (pc = "parse" /\ chan.err) => ctx.force_close

\* C13 (as claimed): a service future that has been polled is polled until
\* it has produced its result: run never returns while it is running.
C13_FuturePolledToCompletion ==
    pc = "done" => fut # "running"

\* C14: when the peer closed the connection (a read of 0 bytes) or reset it
\* (a socket call failed with ConnectionReset), the dispatcher has ended and
\* the caller of run got Ok(()).
C14_PeerCloseIsSilent ==
    peer.st \in {"closed", "reset"} => (pc = "done" /\ run(result) = "Ok")

\* C14 witness: the peer closed while the body of a dispatched request was
\* still being streamed, behind a response already written.
C14_Witness ==
    /\ peer.st = "closed"
    /\ result = "Closed"
    /\ body_handle.alive /\ fut = "running"
    /\ Toks(sock, "head") # {}

\* ------------------------------------------ Context::encode_head on its own
\* The inputs of encode_head: statuses around the 1xx range, header lists
\* that take each arm of the header loop, the three body sizes, and every
\* context decode_head can leave.
EncodeStatuses == {100, 101, 102, 199, 200, 204, 404}

EncodeHeaders ==
    { <<>>,
      <<Hdr("connection", 0, <<"close">>)>>,
      <<Hdr("connection", 0, <<"upgrade">>)>>,
      <<Hdr("connection", 0, <<"keep-alive">>), Hdr("x-a", 0, <<>>)>>,
      <<Hdr("content-length", 2, <<>>)>>,
      <<Hdr("transfer-encoding", 0, <<"chunked">>)>>,
      <<Hdr("content-length", 2, <<>>), Hdr("transfer-encoding", 0, <<"chunked">>)>>,
      <<Hdr("x-a", 0, <<>>), Hdr("content-length", -1, <<>>)>>,
      <<Hdr("set-cookie", 0, <<"a">>), Hdr("set-cookie", 0, <<"b">>)>> }

EncodeSizes == {Size("None", 0), Size("Stream", 0), Size("Sized", 1)}

InitEncode ==
    /\ pc = "encode_head"
    /\ result = "none"
    /\ ctx \in [ctype : {"KeepAlive", "Close", "Upgrade"}, force_close : BOOLEAN,
                expect : {FALSE}, connect : BOOLEAN]
    /\ req = NoReq
    /\ read_buf = <<>>
    /\ write_buf = <<>>
    /\ sock = <<>>
    /\ net = <<>>
    /\ peer = [tok |-> 0, st |-> "open"]
    /\ body_handle = NoHandle
    /\ chan = EmptyChan
    /\ fut = "done"
    /\ res_body = [rid |-> 0, left |-> 0, echo |-> FALSE]
    /\ encoder = TE_eof
    /\ log = <<>>

\* Context::encode_head: write_head runs encode_head_inner on the scratch.
\* The history keeps the response given, the connection type before the
\* call and what the closure had pushed.
encode_head ==
    /\ pc = "encode_head"
    /\ \E st \in EncodeStatuses, hs \in EncodeHeaders, size \in EncodeSizes :
       \E e \in encode_head_builds(Resp(st, hs, size, 0, FALSE), size, ctx) :
            /\ ctx' = e.ctx
            /\ write_buf' = write_head(write_buf, e, 1)
            /\ encoder' = IF e.ok THEN e.encoding ELSE encoder
            /\ result' = IF e.ok THEN "Ok"
                          ELSE IF e.err = "Panic" THEN "Panic" ELSE "Proto"
            /\ log' = <<[e |-> "encode_head", id |-> 1, ct |-> e.err,
                         status |-> st, scratch |-> e.buf, headers |-> hs,
                         size |-> size, ctype0 |-> ctx.ctype]>>
    /\ pc' = "done"
    /\ UNCHANGED <<req, read_buf, sock, net, peer, body_handle, chan, fut,
                   res_body>>

NextEncode == encode_head

SpecEncode == InitEncode /\ [][NextEncode]_vars

\* C20: encode_head refuses every response with a 1xx status other than 101
\* with Parse(StatusCode), whatever the context, headers and body size, and
\* the error is returned with nothing pushed to the head scratch and nothing
\* in the write buffer.
C20_InformationalRefused ==
    \A i \in DOMAIN log :
        (log[i].e = "encode_head" /\ log[i].status \in 100..199
            /\ log[i].status # 101)
        => /\ log[i].ct = "StatusCode"
           /\ log[i].scratch = <<>>
           /\ result = "Proto"
           /\ write_buf = <<>>

\* C20 witness: a 102 answer to a CONNECT request, with a header that would
\* have failed later, was refused for its status.
C20_Witness ==
    /\ \E i \in DOMAIN log :
          /\ log[i].e = "encode_head" /\ log[i].status = 102
          /\ log[i].ct = "StatusCode"
    /\ ctx.connect
    /\ result = "Proto"

\* ------------------------------- ResponseBody (actix-http-alt) on its own
\* ResponseBody::bytes_with_chunk_size
bytes_with_chunk_size(bytes, chunk_size) ==
    [kind |-> "Bytes", bytes |-> bytes, chunk_size |-> chunk_size]

\* ResponseBody::size
size(b) ==
    CASE b.kind = "None" -> Size("None", 0)
      [] b.kind = "Bytes" -> Size("Sized", Len(b.bytes))
      [] OTHER -> Size("Stream", 0)

\* Bytes::split_to(at): the first at bytes, and what the value keeps.
split_to(bytes, at) ==
    [front |-> SubSeq(bytes, 1, at), rest |-> SubSeq(bytes, at + 1, Len(bytes))]

\* Stream::poll_next of the None and Bytes variants: the item and the body
\* afterwards.
poll_next(b) ==
    IF b.kind = "None"
    THEN [item |-> [some |-> FALSE, bytes |-> <<>>], body |-> b]
    ELSE IF b.chunk_size < Len(b.bytes)
         THEN [item |-> [some |-> TRUE, bytes |-> split_to(b.bytes, b.chunk_size).front],
               body |-> [b EXCEPT !.bytes = split_to(b.bytes, b.chunk_size).rest]]
         ELSE [item |-> [some |-> TRUE, bytes |-> b.bytes],
               body |-> [kind |-> "None", bytes |-> <<>>, chunk_size |-> b.chunk_size]]

BytesValues == UNION {[1..n -> {"a", "b"}] : n \in 0..MaxBytes}

\* A Bytes body made by bytes_with_chunk_size; its size hint is taken before
\* the first poll and kept, with the bytes, in the history.
InitBody ==
    /\ pc = "poll"
    /\ result = "none"
    /\ ctx = [ctype |-> "KeepAlive", force_close |-> FALSE, expect |-> FALSE,
              connect |-> FALSE]
    /\ req = NoReq
    /\ read_buf = <<>>
    /\ write_buf = <<>>
    /\ sock = <<>>
    /\ net = <<>>
    /\ peer = [tok |-> 0, st |-> "open"]
    /\ body_handle = NoHandle
    /\ chan = EmptyChan
    /\ fut = "done"
    /\ \E bytes \in BytesValues, chunk_size \in 0..MaxChunkSize :
          /\ res_body = bytes_with_chunk_size(bytes, chunk_size)
          /\ log = <<[e |-> "size", n |-> size(res_body).n, bytes |-> bytes,
                       polls |-> 0]>>
    /\ encoder = TE_eof

\* One poll of the body: a chunk is appended to what was yielded so far
\* (kept in sock), None ends the polling.  The history counts the polls
\* modulo 2, which makes a poll that yields an empty chunk a step as well.
PollBody ==
    /\ pc = "poll"
    /\ LET p == poll_next(res_body)
       IN /\ res_body' = p.body
          /\ sock' = sock \o p.item.bytes
          /\ pc' = IF p.item.some THEN "poll" ELSE "done"
    /\ log' = [log EXCEPT ![1].polls = (@ + 1) % 2]
    /\ UNCHANGED <<result, ctx, req, read_buf, write_buf, net, peer,
                   body_handle, chan, fut, encoder>>

NextBody == PollBody

\* The body is polled as long as it has not returned None.
SpecBody == InitBody /\ [][NextBody]_vars /\ WF_vars(PollBody)

\* C19 (as claimed): a Bytes body, whatever its bytes and chunk_size, returns
\* None after finitely many chunks, and the chunks put together are the
\* original bytes, as long as the size hint taken before polling said.
C19_BytesBodyFinite ==
    /\ <>(pc = "done")
    /\ [](pc = "done" => (sock = log[1].bytes /\ Len(sock) = log[1].n))

\* This step got an item from the response body: a chunk, an error or None.
BodyPolled ==
    \/ res_body'.left # res_body.left
    \/ result' = "Body"
    \/ Len(log') > 0 /\ log'[Len(log')].e = "eof" /\ log' # log

\* C17: an iteration of the response_handler loop that starts with the write
\* buffer at or above WRITE_BUF_LIMIT goes into drain_write, and from there
\* to the next poll of the response body the write buffer has been written
\* to the socket to the last byte: no step in between polls the body.
C17_WriteBackpressureDrains ==
    /\ [][(pc = "resp" /\ write_backpressure(write_buf))
             => (~BodyPolled /\ pc' \in {"resp", "drain_bp"}
                   /\ write_buf' = write_buf)]_vars
    /\ [][pc = "drain_bp"
             => /\ ~BodyPolled
                /\ pc' \in {"drain_bp", "resp", "done"}
                /\ pc' = "resp" => write_buf' = <<>>
                /\ pc' = "done" => result' \in {"Io", "Closed"}]_vars

\* C17 witness: the drain of a write buffer that had reached the limit is
\* under way, part of it is on the socket, and the response body has a
\* chunk left to give.
C17_Witness ==
    /\ pc = "drain_bp"
    /\ write_buf # <<>> /\ ~write_backpressure(write_buf)
    /\ res_body.left > 0

\* This step read from the socket: bytes, or the peer's close.
SocketRead ==
    \/ Len(net') < Len(net)
    \/ peer.st = "open" /\ peer'.st = "closed"

\* C18: while a request-body handle is alive, no step reads from the socket
\* unless the body channel's ready() resolves Ok in the state the step is
\* taken from: not while it is pending, and not when the consumer is gone.
C18_ReadOnlyWhenBodyReady ==
    [][(body_handle.alive /\ sender_ready(chan) # "Ok") => ~SocketRead]_vars

\* C18 witness: body bytes wait on the socket and the dispatcher is at the
\* select of request_handler, while the service has not yet taken what the
\* channel holds.
C18_Witness ==
    /\ pc = "req_select" /\ body_handle.alive
    /\ sender_ready(chan) = "Pending"
    /\ net # <<>>
    /\ ~read_backpressure(read_buf)

\* C15: while a request-body handle is alive every call of try_read_buf is
\* made with the read buffer below READ_BUF_LIMIT: a step that reads is one
\* outcome of try_read from a buffer that is not in backpressure, and inside
\* try_read no read follows the one that brought the buffer to the limit.
\* Reading goes on only from a buffer the decoder has drained below it.
C15_NoReadUnderReadBackpressure ==
    [][(body_handle.alive /\ SocketRead)
          => /\ ~read_backpressure(read_buf)
             /\ \E r \in try_read(read_buf, net) :
                   /\ r.net = net'
                   /\ r.buf = read_buf' \/ peer'.st = "closed"
                   /\ \A i \in DOMAIN r.at : r.at[i] < READ_BUF_LIMIT]_vars

\* C15 witness: a read made while the body was streamed stopped at the
\* limit and left bytes on the socket; the handle is alive at the head of
\* the loop, where the decoder runs before anything is read again.
C15_Witness ==
    /\ pc \in {"req", "resp"} /\ body_handle.alive
    /\ read_backpressure(read_buf)
    /\ net # <<>>

C21_InformationalGets500 ==
    \A i \in DOMAIN log :
        (log[i].e = "head_err" /\ log[i].ct = "StatusCode")
        => /\ \E k \in HeadPos(Stream, log[i].id) : Stream[k].lines[1].num = 500
           /\ result # "Proto"

\* The framing headers (content-length, transfer-encoding) among the lines
\* of an encoded head, in the order written.
FramingLines(lines) ==
    SelectSeq(lines, LAMBDA l : l.n \in {"content-length", "transfer-encoding"})

\* C22 (as claimed): the head of a 2xx response to a CONNECT request carries
\* neither content-length nor transfer-encoding and its encoder is Eof,
\* whatever headers and size hint the service's response has.
C22_ConnectSuccessHasNoFraming ==
    (pc = "done" /\ result = "Ok" /\ ctx.connect /\ is_success(log[1].status))
    => /\ FramingLines(write_buf[1].lines) = <<>>
       /\ encoder = TE_eof

\* C23 (as claimed): after the head of a 101 response is encoded the
\* connection type is Upgrade, and encoding a head turns the connection type
\* to Upgrade only when the status is 101.
C23_UpgradeIffSwitchingProtocols ==
    (pc = "done" /\ result = "Ok")
    => /\ log[1].status = 101 => ctx.ctype = "Upgrade"
       /\ (ctx.ctype = "Upgrade" /\ log[1].ctype0 # "Upgrade") => log[1].status = 101

\* The requests whose Expect: 100-continue the expect service refused.
ExpectFailures == {i \in DOMAIN log : log[i].e = "expect" /\ log[i].ct = "Err"}

\* C24: when the expect service fails for a request, run ends with the
\* service error at once: no 100 Continue is encoded or sent for that request
\* and the service is never called with it.
C24_ExpectFailureIsServiceError ==
    \A i \in ExpectFailures :
        /\ pc = "done" /\ result = "Service"
        /\ i = Len(log)
        /\ \A k \in Toks(Stream, "continue") : Stream[k].rid # log[i].id
        /\ \A j \in DOMAIN log :
              (log[j].e \in {"call", "continue"}) => log[j].id # log[i].id

\* An Expect: 100-continue request, after an earlier request was answered,
\* had its expectation refused.
C24_Witness ==
    /\ ExpectFailures # {}
    /\ HeadPos(sock, 1) # {}
    /\ \E i \in ExpectFailures : log[i].id > 1

\* The response given to encode_head carries a framing header of its own.
HasFraming(hs) ==
    \E i \in DOMAIN hs : hs[i].n \in {"content-length", "transfer-encoding"}

\* C25: a response without Content-Length and Transfer-Encoding that is not
\* a 2xx answer to CONNECT is framed from the body size: None gives no
\* framing header and Eof, Sized(n) gives `content-length: n` and Length(n),
\* Stream gives `transfer-encoding: chunked` and a chunked encoder.
C25_FramingFromSize ==
    (/\ pc = "done" /\ result = "Ok"
     /\ ~HasFraming(log[1].headers)
     /\ ~(ctx.connect /\ is_success(log[1].status)))
    => LET fl == FramingLines(write_buf[1].lines)
           sz == log[1].size
       IN CASE sz.kind = "None" -> fl = <<>> /\ encoder = TE_eof
            [] sz.kind = "Sized" ->
                 /\ fl = <<Hdr("content-length", sz.n, <<>>)>>
                 /\ encoder = TE_length(sz.n)
            [] sz.kind = "Stream" ->
                 /\ fl = <<Hdr("transfer-encoding", 0, <<"chunked">>)>>
                 /\ encoder.kind \in {"EncodeChunked", "PlainChunked"}

\* A stream body on a plain 200 response was framed as chunked.
C25_Witness ==
    /\ pc = "done" /\ result = "Ok"
    /\ log[1].headers = <<>> /\ log[1].size.kind = "Stream"
    /\ log[1].status = 200 /\ ~ctx.connect
    /\ encoder.kind = "EncodeChunked"
    /\ HasLine(write_buf[1].lines, "transfer-encoding")

\* The encoder a framing header of the response asks for.
EncoderOf(h) ==
    IF h.n = "content-length" THEN {TE_length(h.num)}
    ELSE {TE_chunked, TE_plain_chunked}

\* C26: when the response carries Content-Length: m or Transfer-Encoding of
\* its own, the head written has the service's framing header and no other,
\* and the encoder returned follows that header (Length(m), or chunked),
\* whatever the size of the body says.
C26_ServiceFramingWins ==
    (pc = "done" /\ result = "Ok" /\ HasFraming(log[1].headers))
    => LET given == FramingLines(log[1].headers)
       IN /\ FramingLines(write_buf[1].lines) = given
          /\ encoder \in EncoderOf(given[Len(given)])

\* Content-Length: 2 on a response whose body is a stream: Length(2) and
\* no transfer-encoding line.
C26_Witness ==
    /\ pc = "done" /\ result = "Ok"
    /\ log[1].headers = <<Hdr("content-length", 2, <<>>)>>
    /\ log[1].size.kind = "Stream"
    /\ encoder = TE_length(2)
    /\ ~HasLine(write_buf[1].lines, "transfer-encoding")

\* The connection headers among the lines of an encoded head.
ConnectionLines(lines) == SelectSeq(lines, LAMBDA l : l.n = "connection")

\* C27: when force-close is set as a head is encoded, the Connection headers
\* of the response are dropped without changing the connection type, and the
\* head has exactly one connection header, `connection: close`.
C27_ForceCloseOverridesConnection ==
    (pc = "done" /\ result = "Ok" /\ ctx.force_close)
    => /\ ConnectionLines(write_buf[1].lines) = <<Hdr("connection", 0, <<"close">>)>>
       /\ ctx.ctype = log[1].ctype0

\* A response with `connection: upgrade` was encoded on a keep-alive
\* connection with force-close set.
C27_Witness ==
    /\ pc = "done" /\ result = "Ok" /\ ctx.force_close
    /\ log[1].headers = <<Hdr("connection", 0, <<"upgrade">>)>>
    /\ log[1].ctype0 = "KeepAlive"

\* ------------------------------------------- TransferEncoding on its own
\* An encoder in any of its states is given up to MaxSent inputs of 0 to
\* MaxChunk bytes and then encode_eof.  The history keeps, for each call,
\* the encoder before it, the input length and the tokens written.
EncoderStates ==
    {TE_eof, TE_chunked, TE_plain_chunked} \cup {TE_length(n) : n \in 0..MaxBody}

InitTransfer ==
    /\ pc = "encode"
    /\ result = "none"
    /\ encoder \in EncoderStates
    /\ ctx = [ctype |-> "KeepAlive", force_close |-> FALSE, expect |-> FALSE,
              connect |-> FALSE]
    /\ req = NoReq
    /\ read_buf = <<>>
    /\ write_buf = <<>>
    /\ sock = <<>>
    /\ net = <<>>
    /\ peer = [tok |-> 0, st |-> "open"]
    /\ body_handle = NoHandle
    /\ chan = EmptyChan
    /\ fut = "done"
    /\ res_body = [rid |-> 1, left |-> 0, echo |-> FALSE]
    /\ log = <<>>

\* TransferEncoding::encode with an input of n bytes.
EncodeBytes ==
    /\ pc = "encode"
    /\ Len(log) < MaxSent
    /\ \E n \in 0..MaxChunk :
         LET r == encode(encoder, n, 1)
         IN /\ encoder' = r.enc
            /\ write_buf' = write_buf \o r.out
            /\ log' = Append(log, [e |-> "encode", id |-> 1, ct |-> "",
                                    enc |-> encoder, n |-> n, out |-> r.out])
    /\ UNCHANGED <<pc, result, ctx, req, read_buf, sock, net, peer,
                   body_handle, chan, fut, res_body>>

\* TransferEncoding::encode_eof.
EncodeEof ==
    /\ pc = "encode"
    /\ LET r == encode_eof(encoder, 1)
       IN /\ write_buf' = write_buf \o r.out
          /\ result' = IF r.panic THEN "Panic" ELSE "Ok"
          /\ log' = Append(log, [e |-> "encode_eof", id |-> 1, ct |-> "",
                                  enc |-> encoder, n |-> 0, out |-> r.out])
    /\ pc' = "done"
    /\ UNCHANGED <<encoder, ctx, req, read_buf, sock, net, peer, body_handle,
                   chan, fut, res_body>>

NextTransfer == EncodeBytes \/ EncodeEof

SpecTransfer == InitTransfer /\ [][NextTransfer]_vars

\* C28 (as claimed): encode of an empty input writes nothing whatever the
\* encoder, and encode_eof writes the terminator `0\r\n\r\n` exactly when
\* the encoder is a chunked one (EncodeChunked or PlainChunked).
C28_EmptyInputAndTerminator ==
    \A i \in DOMAIN log :
        /\ (log[i].e = "encode" /\ log[i].n = 0) => log[i].out = <<>>
        /\ log[i].e = "encode_eof" =>
              (log[i].out = <<Tok("term", 1, 0)>>
                 <=> log[i].enc.kind \in {"EncodeChunked", "PlainChunked"})

\* The encode calls of the history made on a Length encoder.
LengthCalls == {i \in DOMAIN log : log[i].e = "encode" /\ log[i].enc.kind = "Length"}

\* The encoder a call of the history left behind.
EncoderAfter(i) == IF i < Len(log) THEN log[i + 1].enc ELSE encoder

\* C29: a Length(n) encoder writes at most n body bytes over any sequence
\* of encode calls: each call writes min(remaining, input length) bytes,
\* takes exactly that off remaining and drops the rest of the input, and
\* remaining never goes below zero.
C29_LengthNeverOverruns ==
    /\ \A i \in LengthCalls :
          LET len == Min(log[i].enc.rem, log[i].n)
          IN /\ log[i].out = write_buf_bytes(1, len)
             /\ EncoderAfter(i) = TE_length(log[i].enc.rem - len)
             /\ EncoderAfter(i).rem >= 0
    /\ (log # <<>> /\ log[1].enc.kind = "Length")
          => /\ Len(write_buf) <= log[1].enc.rem
             /\ Len(write_buf) + encoder.rem = log[1].enc.rem

\* A Length(1) encoder was given two bytes, wrote one and dropped the
\* other, and a later input was dropped whole.
C29_Witness ==
    /\ Len(log) >= 2
    /\ log[1].e = "encode" /\ log[1].enc = TE_length(1) /\ log[1].n = 2
    /\ Len(log[1].out) = 1
    /\ log[2].e = "encode" /\ log[2].n > 0 /\ log[2].out = <<>>

\* ---------------------------- actix-http-alt h1 Dispatcher::try_write
\* The write buffer holds numbered bytes.  One call of try_write, with
\* `written` bytes accepted so far: the socket takes 1..MaxChunk more bytes,
\* would block, takes 0 bytes (Error::Closed) or fails (Error::Io).  The
\* result is the set of outcomes [buf, sock, ret, io].
RECURSIVE try_write_keeps_written(_, _, _)
try_write_keeps_written(buf, sk, written) ==
    IF written < Len(buf)
    THEN UNION {try_write_keeps_written(buf, sk, written + n) :
                    n \in 1..Min(Len(buf) - written, MaxChunk)}
         \cup {[buf |-> buf, sock |-> sk \o SubSeq(buf, 1, written),
                 ret |-> "true", io |-> "WouldBlock"]}
         \cup {[buf |-> buf, sock |-> sk \o SubSeq(buf, 1, written),
                 ret |-> e, io |-> e] : e \in {"Closed", "Io"}}
    ELSE {[buf |-> <<>>, sock |-> sk \o buf, ret |-> "false", io |-> "Written"]}

RECURSIVE try_write(_, _, _)
try_write(buf, sk, written) ==
    IF written < Len(buf)
    THEN UNION {try_write(buf, sk, written + n) :
                    n \in 1..Min(Len(buf) - written, MaxChunk)}
         \cup {[buf |-> SubSeq(buf, written + 1, Len(buf)),
                 sock |-> sk \o SubSeq(buf, 1, written),
                 ret |-> "true", io |-> "WouldBlock"]}
         \cup {[buf |-> buf, sock |-> sk \o SubSeq(buf, 1, written),
                 ret |-> e, io |-> e] : e \in {"Closed", "Io"}}
    ELSE {[buf |-> <<>>, sock |-> sk \o buf, ret |-> "false", io |-> "Written"]}

\* The bytes put into the write buffer so far, in order.
Produced ==
    LET puts == SelectSeq(log, LAMBDA x : x.e = "put")
    IN [i \in DOMAIN puts |-> Tok("data", 1, puts[i].id)]

WriteCalls == {i \in DOMAIN log : log[i].e = "try_write"}

InitWrite ==
    /\ pc = "write"
    /\ result = "none"
    /\ ctx = [ctype |-> "KeepAlive", force_close |-> FALSE, expect |-> FALSE,
              connect |-> FALSE]
    /\ req = NoReq
    /\ read_buf = <<>>
    /\ write_buf = <<>>
    /\ sock = <<>>
    /\ net = <<>>
    /\ peer = [tok |-> 0, st |-> "open"]
    /\ body_handle = NoHandle
    /\ chan = EmptyChan
    /\ fut = "done"
    /\ res_body = [rid |-> 1, left |-> 0, echo |-> FALSE]
    /\ encoder = TE_eof
    /\ log = <<>>

\* The dispatcher encodes one more byte into the write buffer.
PutByte ==
    /\ pc = "write"
    /\ Len(Produced) < MaxBytes
    /\ LET id == Len(Produced) + 1
       IN /\ write_buf' = Append(write_buf, Tok("data", 1, id))
          /\ log' = Append(log, [e |-> "put", id |-> id, ct |-> "", ret |-> ""])
    /\ UNCHANGED <<pc, result, ctx, req, read_buf, sock, net, peer,
                   body_handle, chan, fut, res_body, encoder>>

\* One call of try_write; an error returned ends the dispatcher.
TryWrite ==
    /\ pc = "write"
    /\ Cardinality(WriteCalls) < MaxSent
    /\ \E w \in try_write(write_buf, sock, 0) :
         /\ write_buf' = w.buf
         /\ sock' = w.sock
         /\ result' = w.ret
         /\ pc' = IF w.ret \in {"true", "false"} THEN "write" ELSE "done"
         /\ log' = Append(log, [e |-> "try_write", id |-> 0, ct |-> w.io,
                                 ret |-> w.ret])
    /\ UNCHANGED <<ctx, req, read_buf, net, peer, body_handle, chan, fut,
                   res_body, encoder>>

NextWrite == PutByte \/ TryWrite

SpecWrite == InitWrite /\ [][NextWrite]_vars

\* C30: try_write returns false only with every buffered byte on the socket
\* and the write buffer empty; it returns true when the socket would block,
\* and then the buffer holds exactly the bytes not yet written; over any
\* sequence of calls the socket receives the bytes in the order they were
\* buffered, none lost and none twice.
C30_TryWriteExactlyOnce ==
    /\ \A i \in WriteCalls :
          /\ log[i].ct = "WouldBlock" => log[i].ret = "true"
          /\ log[i].ret = "false" => log[i].ct = "Written"
    /\ (log # <<>> /\ log[Len(log)].e = "try_write" /\ log[Len(log)].ret = "false")
          => write_buf = <<>> /\ sock = Produced
    /\ pc = "write" => sock \o write_buf = Produced
    /\ Len(sock) <= Len(Produced) /\ sock = SubSeq(Produced, 1, Len(sock))

\* A call wrote part of the buffer and met WouldBlock, and a later call
\* wrote the rest.
C30_Witness ==
    /\ \E i \in WriteCalls : log[i].ret = "true" /\ i > 1 /\ i < Len(log)
    /\ log[Len(log)].e = "try_write" /\ log[Len(log)].ret = "false"
    /\ Len(sock) = MaxBytes

\* C31: whenever the dispatcher waits at the top of its loop for the next
\* request (the Init / KeepAlive read), the write buffer is empty: every
\* response encoded before is on the socket.
C31_TopOfLoopDrained ==
    WaitingRead
    => /\ write_buf = <<>>
       /\ \A i \in DOMAIN log :
             log[i].e = "head" => HeadPos(sock, log[i].id) # {}

\* The dispatcher is back at the keep-alive read after a response whose
\* drain took more than one write.
C31_Witness ==
    /\ WaitingRead /\ ctx.ctype = "KeepAlive"
    /\ \E i \in DOMAIN log : log[i].e = "head"
    /\ Len(sock) >= 2

\* C32: for each request body at most one terminator (feed_eof or
\* feed_error) is fed to the channel; after it the handle is dropped and
\* nothing more is fed, the data before it was fed in receive order, and
\* the service future is still polled.
C32_OneBodyTerminator ==
    /\ chan.terms <= 1
    /\ chan.terms > 0 => ~body_handle.alive
    /\ chan.late = 0
    /\ chan.order
    /\ (chan.terms > 0 /\ fut = "running") => pc \in {"req", "fut_await"}

\* The body of a later request was fed whole and ended with feed_eof while
\* the service future was running.
C32_Witness ==
    /\ chan.terms = 1 /\ chan.eof /\ chan.fed = MaxBody /\ chan.last > 2
    /\ fut = "running"

\* ------------------------------- response_handler with an echoing stream
\* The service has returned a Stream response whose body yields what the
\* request body channel holds; its head is encoded and response_handler is
\* entered with the request body (the tokens after the head token 1) still
\* to come and, before the head, what is left unwritten of the response to
\* an earlier pipelined request.  The peer sends the body; the socket
\* becomes readable and writable.
EchoResp == Resp(200, <<>>, Size("Stream", 0), 0, TRUE)

InitEcho ==
    /\ pc = "resp"
    /\ result = "none"
    /\ ctx = [ctype |-> "KeepAlive", force_close |-> FALSE, expect |-> FALSE,
              connect |-> FALSE]
    /\ \E len \in 1..MaxBody :
          /\ req = [RK("ok", "HTTP/1.1", "none", FALSE, len) EXCEPT !.id = 1]
          /\ body_handle = new_pair(len).handle
          /\ chan = new_pair(len).chan
          /\ res_body = [rid |-> 1, left |-> len, echo |-> TRUE]
          /\ peer = [tok |-> 1, st |-> "open"]
          /\ net = <<>>
          /\ log = <<[e |-> "echo", id |-> 1, ct |-> "", n |-> len]>>
    /\ read_buf = <<>>
    /\ \E prev \in 0..MaxChunk :
         LET e == encode_head_inner(EchoResp, EchoResp.size, ctx)
         IN /\ write_buf = write_head(write_buf_bytes(0, prev), e, 1)
            /\ encoder = e.encoding
    /\ sock = <<>>
    /\ fut = "done"

\* body.next() of the echoing stream yielded the bytes the channel holds.
EchoSome ==
    /\ pc = "resp_select"
    /\ chan.rx /\ chan.q > 0
    /\ LET e == encode(encoder, chan.q, res_body.rid)
       IN /\ write_buf' = write_buf \o e.out
          /\ encoder' = e.enc
    /\ res_body' = [res_body EXCEPT !.left = @ - chan.q]
    /\ chan' = [chan EXCEPT !.q = 0]
    /\ pc' = body_some_next(ctx)
    /\ UNCHANGED <<result, ctx, req, read_buf, sock, net, peer, body_handle,
                   fut, log>>

\* body.next() of the echoing stream yielded None, the channel being at its
\* end: encode_eof, response_handler returns.
EchoNone ==
    /\ pc = "resp_select"
    /\ chan.q = 0 /\ chan.eof
    /\ LET c1 == early_end_ctx(ctx, body_handle, chan)
           ee == encode_eof(encoder, res_body.rid)
       IN /\ ctx' = c1
          /\ write_buf' = write_buf \o ee.out
          /\ Ret(IF ee.panic THEN "Panic" ELSE "Ok")
    /\ body_handle' = NoHandle
    /\ UNCHANGED <<req, read_buf, sock, net, peer, chan, fut, res_body,
                   encoder, log>>

NextEcho ==
    \/ PeerSend \/ RespLoop \/ ReadableOk \/ EchoSome \/ EchoNone
    \/ Writable \/ DrainWrite

\* Whatever can run does run: the peer goes on sending, the socket becomes
\* ready, the task is polled.
SpecEcho == InitEcho /\ [][NextEcho]_vars /\ WF_vars(NextEcho)

RECURSIVE ChunkBytes(_)
ChunkBytes(seq) ==
    IF seq = <<>> THEN 0
    ELSE (IF Head(seq).t = "chunk" THEN Head(seq).n ELSE 0) + ChunkBytes(Tail(seq))

\* The whole echoed body and the terminator are encoded.
EchoEncoded ==
    /\ ChunkBytes(Stream) = log[1].n
    /\ Toks(Stream, "term") # {}
    /\ Stream[Len(Stream)].t = "term"

\* C33: with an echoing stream response, a peer that sends the whole body
\* and a socket that becomes readable and writable, response_handler
\* eventually returns with the whole echoed body and the terminator
\* encoded: the select never stays with every arm pending.
C33_EchoCompletes == <>(pc = "done" /\ result = "Ok" /\ EchoEncoded)

\* response_handler returned after a body that arrived, and was echoed, in
\* two pieces, with a write in between.
C33_Witness ==
    /\ pc = "done" /\ result = "Ok" /\ EchoEncoded
    /\ Cardinality(Toks(Stream, "chunk")) = 2
    /\ sock # <<>>

\* C34 (as claimed): encode_eof is never called on a Length encoder with
\* bytes remaining, whatever response the service returned: its
\* unreachable!() arm is not reached.
C34_EofNeverOnOpenLength ==
    (log # <<>> /\ log[Len(log)].e = "eof")
    => /\ ~(encoder.kind = "Length" /\ encoder.rem > 0)
       /\ result # "Panic"

\* The entries of a header list apart from the Connection headers.
NotConnection(hs) == SelectSeq(hs, LAMBDA h : h.n # "connection")

\* C35 (as claimed): encode_head encodes every header entry of the response
\* without aborting, a name with several values included: each value is
\* written as its own `name: value` line.
C35_EveryHeaderEncoded ==
    (pc = "done" /\ ~HasFraming(log[1].headers) /\ log[1].ct # "StatusCode")
    => /\ result = "Ok"
       /\ LET given == NotConnection(log[1].headers)
          IN SelectSeq(write_buf[1].lines,
                       LAMBDA l : \E i \in DOMAIN given : given[i].n = l.n) = given

\* C36 (as claimed): a response that is completely encoded does not wait
\* in the write buffer for a later pipelined request: while the dispatcher
\* awaits the service future of a request, nothing of an earlier response
\* is still unwritten.
C36_ResponseNotHeldBack ==
    PollingFut => \A k \in DOMAIN write_buf : write_buf[k].rid = req.id

\* The requests during whose handling force-close was set: the consumer of
\* the request body was found dropped, or the response body ended with the
\* request body unread.
ForcedDuring == {i \in DOMAIN log : log[i].e \in {"rx_dropped", "early_end"}}

\* C37 (as claimed): when the dispatcher has closed the connection because
\* force-close was set while a request was handled, the head of the
\* response to that request carries `connection: close`.
C37_ForcedCloseAnnounced ==
    (pc = "done" /\ result = "Ok" /\ ctx.force_close)
    => \A i \in ForcedDuring :
          \A k \in HeadPos(sock, log[i].id) :
              \E j \in DOMAIN sock[k].lines :
                  sock[k].lines[j] = Hdr("connection", 0, <<"close">>)

\* ------------------------------------- postgres BufferedIo (io/buffered.rs)
\* The driver task of a postgres connection.  In this part the variables
\* hold: chan the request channel (q the requests queued, open while a
\* sender lives, sent the requests sent so far), ctx the Context (inflight
\* the requests awaiting a response, throttled), write_buf / sock the bytes
\* of the request messages (two tokens a message), net / read_buf the
\* response messages of the server (one token each), pc the position of the
\* task ("spawned" before its first poll, "run", "shutdown", "done"), fut
\* the holder of the Handle ("none", "awaiting" after notify_waiters,
\* "returned"), peer.stop the Notified future of the task having been
\* notified, peer.tok the responses sent by the server, peer.st the parity
\* of the socket wakeups that found nothing to do.

\* req.msg
msg(id) == <<Tok("data", id, 1), Tok("data", id, 2)>>

try_rx_ignores_throttle(ch, c) ==
    IF ch.q # <<>> THEN "Some" ELSE IF ~ch.open THEN "None" ELSE "Pending"

\* try_rx: pending for ever while the context is throttled, else rx.recv():
\* the next request, None once the channel is closed and empty.
try_rx(ch, c) ==
    IF c.throttled THEN "Pending"
    ELSE IF ch.q # <<>> THEN "Some"
    ELSE IF ~ch.open THEN "None" ELSE "Pending"

\* try_io: the interest the socket is awaited with in _run.
try_io(want_write) == IF want_write THEN {"R", "W"} ELSE {"R"}

shutdown_interest_write_only(want_read, want_write) ==
    IF want_write THEN {"W"} ELSE {}

\* The interest of the first loop of shutdown; the empty set is `break`.
shutdown_interest(want_read, want_write) ==
    (IF want_read THEN {"R"} ELSE {}) \cup (IF want_write THEN {"W"} ELSE {})

\* Context::push_concurrent_req; what it does to throttled() is not known.
push_concurrent_req(c, id) ==
    {[inflight |-> Append(c.inflight, id), throttled |-> t] : t \in BOOLEAN}

\* Context::try_decode: each response message of the read buffer goes to
\* the request at the front of the in-flight queue; what it does to
\* throttled() is not known.
try_decode(c, buf) ==
    LET k == Min(Len(buf), Len(c.inflight))
    IN {[inflight |-> SubSeq(c.inflight, k + 1, Len(c.inflight)), throttled |-> t] :
           t \in BOOLEAN}

\* handle_io for the readiness ready: read until WouldBlock and decode,
\* then write until WouldBlock (after k bytes) or the buffer is empty.
handle_io(ready, c, rbuf, n, wbuf, sk) ==
    LET rd == IF "R" \in ready /\ n # <<>>
              THEN {[ctx |-> c2, net |-> <<>>] : c2 \in try_decode(c, rbuf \o n)}
              ELSE {[ctx |-> c, net |-> n]}
        wr == IF "W" \in ready /\ wbuf # <<>>
              THEN {[write_buf |-> SubSeq(wbuf, k + 1, Len(wbuf)),
                     sock |-> sk \o SubSeq(wbuf, 1, k)] : k \in 1..Len(wbuf)}
              ELSE {[write_buf |-> wbuf, sock |-> sk]}
    IN {[ctx |-> r.ctx, net |-> r.net, write_buf |-> w.write_buf, sock |-> w.sock] :
           r \in rd, w \in wr}

\* The readiness the socket can report for an interest: readable with
\* response bytes in flight, writable at any time.
Readiness(interest, n) ==
    {r \in SUBSET interest : r # {} /\ ("R" \in r => n # <<>>)}

InitDriver ==
    /\ pc \in {"spawned", "run"}
    /\ result = "none"
    /\ ctx = [inflight |-> <<>>, throttled |-> FALSE]
    /\ chan = [q |-> <<>>, open |-> TRUE, sent |-> 0]
    /\ req = NoReq
    /\ read_buf = <<>>
    /\ write_buf = <<>>
    /\ sock = <<>>
    /\ net = <<>>
    /\ peer = [tok |-> 0, st |-> 0, stop |-> FALSE]
    /\ body_handle = NoHandle
    /\ fut = IF pc = "spawned" THEN "none" ELSE "no_handle"
    /\ res_body = [rid |-> 0, left |-> 0, echo |-> FALSE]
    /\ encoder = TE_eof
    /\ log = <<>>

DriverUnused == <<req, read_buf, body_handle, res_body, encoder>>

\* A client sends a request, with or without a response channel.
ClientSend ==
    /\ chan.open /\ chan.sent < MaxSent
    /\ \E tx \in BOOLEAN :
         chan' = [chan EXCEPT !.q = Append(@, [id |-> chan.sent + 1, tx |-> tx]),
                              !.sent = @ + 1]
    /\ UNCHANGED <<pc, result, ctx, write_buf, sock, net, peer, fut, log>>
    /\ UNCHANGED DriverUnused

\* The last sender is dropped.
ClientsGone ==
    /\ chan.open
    /\ chan' = [chan EXCEPT !.open = FALSE]
    /\ UNCHANGED <<pc, result, ctx, write_buf, sock, net, peer, fut, log>>
    /\ UNCHANGED DriverUnused

\* The requests with a response channel taken so far, in order.
TxTaken == SelectSeq(log, LAMBDA x : x.e = "recv" /\ x.ct = "tx")

\* The server answers the next request it has received whole.
ServerSend ==
    /\ peer.tok < Len(TxTaken)
    /\ LET id == TxTaken[peer.tok + 1].id
       IN /\ \E i \in DOMAIN sock : sock[i] = msg(id)[2]
          /\ net' = Append(net, Tok("resp", id, 0))
    /\ peer' = [peer EXCEPT !.tok = @ + 1]
    /\ UNCHANGED <<pc, result, ctx, chan, write_buf, sock, fut, log>>
    /\ UNCHANGED DriverUnused

\* The spawned task is polled for the first time: _run and notified() are
\* created and polled.
FirstPoll ==
    /\ pc = "spawned"
    /\ pc' = "run"
    /\ UNCHANGED <<result, ctx, chan, write_buf, sock, net, peer, fut, log>>
    /\ UNCHANGED DriverUnused

\* SelectOutput::A(Some(req)): the message is appended to the write buffer.
RecvReq ==
    /\ pc = "run"
    /\ try_rx(chan, ctx) = "Some"
    /\ LET r == Head(chan.q)
       IN /\ write_buf' = write_buf \o msg(r.id)
          /\ ctx' \in (IF r.tx THEN push_concurrent_req(ctx, r.id) ELSE {ctx})
          /\ log' = Append(log, [e |-> "recv", id |-> r.id,
                                  ct |-> IF r.tx THEN "tx" ELSE "notx",
                                  throttled |-> ctx.throttled])
    /\ chan' = [chan EXCEPT !.q = Tail(@)]
    /\ UNCHANGED <<pc, result, sock, net, peer, fut>>
    /\ UNCHANGED DriverUnused

\* SelectOutput::A(None): the clients are gone, _run goes to shutdown.
RecvNone ==
    /\ pc = "run"
    /\ try_rx(chan, ctx) = "None"
    /\ pc' = "shutdown"
    /\ log' = Append(log, [e |-> "closed", id |-> 0,
                            ct |-> IF write_buf # <<>> /\ ctx.inflight # <<>>
                                   THEN "busy" ELSE "idle",
                            throttled |-> ctx.throttled])
    /\ UNCHANGED <<result, ctx, chan, write_buf, sock, net, peer, fut>>
    /\ UNCHANGED DriverUnused

\* SelectOutput::B(ready): handle_io.
RunIo ==
    /\ pc = "run"
    /\ \E ready \in Readiness(try_io(write_buf # <<>>), net) :
       \E h \in handle_io(ready, ctx, read_buf, net, write_buf, sock) :
          /\ ctx' = h.ctx /\ net' = h.net
          /\ write_buf' = h.write_buf /\ sock' = h.sock
    /\ UNCHANGED <<pc, result, chan, peer, fut, log>>
    /\ UNCHANGED DriverUnused

\* The socket reported readable with nothing to read (the first read_buf
\* returns WouldBlock): the task is polled and nothing changes.
IdleWake ==
    /\ pc = "run"
    /\ net = <<>> /\ write_buf = <<>>
    /\ try_rx(chan, ctx) = "Pending"
    /\ peer' = [peer EXCEPT !.st = 1 - @]
    /\ UNCHANGED <<pc, result, ctx, chan, write_buf, sock, net, fut, log>>
    /\ UNCHANGED DriverUnused

\* The first loop of shutdown: handle_io while something is to be written
\* or awaited; then flush and poll_shutdown.
ShutdownIo ==
    /\ pc = "shutdown"
    /\ LET interest == shutdown_interest(ctx.inflight # <<>>, write_buf # <<>>)
       IN IF interest = {}
          THEN /\ Ret("Ok")
               /\ log' = Append(log, [e |-> "shutdown", id |-> 0, ct |-> "",
                                       throttled |-> ctx.throttled])
               /\ UNCHANGED <<ctx, net, write_buf, sock>>
          ELSE /\ \E ready \in Readiness(interest, net) :
                  \E h \in handle_io(ready, ctx, read_buf, net, write_buf, sock) :
                     /\ ctx' = h.ctx /\ net' = h.net
                     /\ write_buf' = h.write_buf /\ sock' = h.sock
               /\ UNCHANGED <<pc, result, log>>
    /\ UNCHANGED <<chan, peer, fut>>
    /\ UNCHANGED DriverUnused

\* A socket call failed (ready, read of 0 bytes, write of 0 bytes, an
\* error): _run returns the error.
DriverIoFail ==
    /\ pc \in {"run", "shutdown"}
    /\ Ret("Io")
    /\ UNCHANGED <<ctx, chan, write_buf, sock, net, peer, fut, log>>
    /\ UNCHANGED DriverUnused

\* Handle::into_inner: notify_waiters() notifies the Notified futures that
\* exist at this moment, then the JoinHandle is awaited.
IntoInner ==
    /\ fut = "none"
    /\ fut' = "awaiting"
    /\ peer' = [peer EXCEPT !.stop = (pc = "run" \/ pc = "shutdown")]
    /\ UNCHANGED <<pc, result, ctx, chan, write_buf, sock, net, log>>
    /\ UNCHANGED DriverUnused

\* notified() resolved: the select of the task drops _run.
Stopped ==
    /\ pc \in {"run", "shutdown"}
    /\ peer.stop
    /\ Ret("Stopped")
    /\ UNCHANGED <<ctx, chan, write_buf, sock, net, peer, fut, log>>
    /\ UNCHANGED DriverUnused

\* self.handle.await: the task has finished.
JoinReturns ==
    /\ fut = "awaiting"
    /\ pc = "done"
    /\ fut' = "returned"
    /\ UNCHANGED <<pc, result, ctx, chan, write_buf, sock, net, peer, log>>
    /\ UNCHANGED DriverUnused

DriverStep ==
    \/ FirstPoll \/ RecvReq \/ RecvNone \/ RunIo \/ IdleWake \/ ShutdownIo
    \/ Stopped \/ JoinReturns

NextDriver ==
    \/ ClientSend \/ ClientsGone \/ ServerSend
    \/ FirstPoll \/ RecvReq \/ RecvNone \/ RunIo \/ IdleWake \/ ShutdownIo
    \/ DriverIoFail \/ IntoInner \/ Stopped \/ JoinReturns

\* The runtime polls the task and the socket becomes ready; the server
\* answers; a notified task is stopped.
SpecDriver ==
    /\ InitDriver /\ [][NextDriver]_vars
    /\ WF_vars(DriverStep) /\ WF_vars(ServerSend)
    /\ WF_vars(Stopped) /\ WF_vars(JoinReturns) /\ WF_vars(ShutdownIo)

\* The events of the driver taking from the request channel.
Taken == SelectSeq(log, LAMBDA x : x.e = "recv")

RECURSIVE Messages(_)
Messages(evs) ==
    IF evs = <<>> THEN <<>> ELSE msg(Head(evs).id) \o Messages(Tail(evs))

\* C38: while the context is throttled the driver takes nothing from the
\* request channel, neither a queued request nor its closure; the bytes
\* written and to be written are the messages of the requests in the order
\* they were received, which is the order they were sent in; and while the
\* context is throttled in _run, socket I/O that is ready is served.
C38_ThrottledTakesNothing ==
    /\ \A i \in DOMAIN log :
         log[i].e \in {"recv", "closed"} => ~log[i].throttled
    /\ sock \o write_buf = Messages(Taken)
    /\ \A i \in DOMAIN Taken : Taken[i].id = i
    /\ (pc = "run" /\ ctx.throttled /\ (net # <<>> \/ write_buf # <<>>))
           => ENABLED RunIo

C38_Witness ==
    /\ pc = "run" /\ ctx.throttled
    /\ chan.q # <<>> /\ ~chan.open
    /\ Len(Taken) = 2
    /\ write_buf = <<>> /\ sock = Messages(Taken)
    /\ ctx.inflight = <<>> /\ peer.tok = 2

\* The driver has seen the request channel closed.
SawClosure == \E i \in DOMAIN log : log[i].e = "closed"

\* C39: once the driver has seen the request channel closed it shuts the
\* socket down only with the write buffer empty and no request in flight,
\* every request sent having been taken and written whole and in order;
\* and with the socket becoming ready and the server answering, the
\* requests taken before the closure are written whole and the driver
\* ends (by shutdown, by a socket error or by the stop notification).
C39_ShutdownAfterDraining ==
    /\ [](\A i \in DOMAIN log : log[i].e = "shutdown" =>
             /\ write_buf = <<>> /\ ctx.inflight = <<>>
             /\ chan.q = <<>> /\ Len(Taken) = chan.sent
             /\ sock = Messages(Taken)
             /\ \E j \in 1..(i - 1) : log[j].e = "closed")
    /\ [](pc = "done" /\ result = "Ok" => log # <<>> /\ log[Len(log)].e = "shutdown")
    /\ (SawClosure ~> (sock = Messages(Taken) \/ result \in {"Io", "Stopped"}))
    /\ (SawClosure ~> pc = "done")

C39_Witness ==
    /\ pc = "done" /\ result = "Ok"
    /\ \E i \in DOMAIN log :
         log[i].e = "closed" /\ log[i].ct = "busy"
    /\ sock = Messages(Taken) /\ Len(Taken) = MaxSent

\* C40: Handle::into_inner returns whenever it is called, also when
\* notify_waiters() ran before the first poll of the spawned task: the
\* running task of a holder that awaits it has been notified, and the
\* await ends.
C40_IntoInnerReturns ==
    /\ [](fut = "awaiting" /\ pc \in {"run", "shutdown"} => peer.stop)
    /\ (fut = "awaiting" ~> fut = "returned")


====
